---- MODULE Spec2Model ----
(***************************************************************************)
(* The PPU of gband (src/gband/src/ppu/mod.rs) as a state machine: one     *)
(* action per public entry point of Ppu (clock, ready_frame, write,        *)
(* write_vram, write_oam); the read entry points take &self and are        *)
(* operators over the state.                                               *)
(*                                                                         *)
(* Arrays that start zeroed (vram, oam, secondary_oam, the frame) are kept *)
(* sparse: a function from the indices that hold a non-zero byte to that   *)
(* byte. The frame is kept on the byte offsets of TrackedPixels only.      *)
(***************************************************************************)
EXTENDS Integers, Sequences, FiniteSets, TLC

(* ------------------------------------------------------------------ *)
(* Program constants                                                   *)
(* ------------------------------------------------------------------ *)
FRAME_WIDTH == 160
FRAME_HEIGHT == 144
\* clock: `if self.cycle == 456`
DOTS_PER_LINE == 456
\* clock: `match self.cycle { 80 => ...`
OAM_SCAN_DOTS == 80
\* clock: `154 => { // End of the frame`
LINES_PER_FRAME == 154
\* clock: `if self.y < 144`, `144..=153 =>`
VBLANK_START == 144
\* secondary_oam: [u8; 40]
SECONDARY_OAM_LEN == 40
\* oam: [u8; 0xa0]
OAM_LEN == 160

FRAME_LEN == FRAME_WIDTH * FRAME_HEIGHT * 4
DOTS_PER_FRAME == DOTS_PER_LINE * LINES_PER_FRAME

\* LcdStatus flags (lcd_status.rs; STAT bit layout of the register file)
LYC_EQ_LC == 4
HBANLK_INTERUPT_SOURCE == 8
VBANLK_INTERUPT_SOURCE == 16
OAM_INTERUPT_SOURCE == 32
LYC_EQ_LC_INTERUPT_SOURCE == 64

\* LcdControl flags (lcd_control.rs; LCDC bit layout of the register file)
BACKGROUND_WINDOW_ENABLE_PRIORITY == 1
OBJ_ENABLE == 2
OBJ_SIZE == 4
BACKGROUND_TILE_MAP_AREA == 8
BACKGROUND_WINDOW_TILE_DATA_AREA == 16
WINDOW_ENABLE == 32
WINDOW_TILE_MAP_AREA == 64

\* PixelFifo capacity (pixel_fifo.rs)
FIFO_CAPACITY == 16

(* ------------------------------------------------------------------ *)
(* Bounds of the model                                                 *)
(* ------------------------------------------------------------------ *)
\* clock calls explored from a fresh PPU: one frame and one more scanline
MaxTicks == 70680
\* clock calls explored where the host writes registers during Drawing: two scanlines
MaxDrawTicks == 912

(* ------------------------------------------------------------------ *)
(* Bytes, flags, sparse arrays                                         *)
(* ------------------------------------------------------------------ *)
\* bitflags `contains` for a single-bit flag
Contains(reg, flag) == (reg \div flag) % 2 = 1

\* bitflags `set(flag, value)` for a single-bit flag
SetFlag(reg, flag, value) ==
    IF value THEN (IF Contains(reg, flag) THEN reg ELSE reg + flag)
    ELSE (IF Contains(reg, flag) THEN reg - flag ELSE reg)

\* u8 wrapping_sub / wrapping_add
WrappingSub(a, b) == (a - b) % 256
WrappingAdd(a, b) == (a + b) % 256

EmptyMem == [i \in {} |-> 0]

\* a[i] of a zero-initialised array kept sparse
Get(a, i) == IF i \in DOMAIN a THEN a[i] ELSE 0

\* a[i] = v
Put(a, i, v) ==
    IF v = 0 THEN [j \in (DOMAIN a) \ {i} |-> a[j]]
    ELSE [j \in (DOMAIN a) \cup {i} |-> IF j = i THEN v ELSE a[j]]

\* the frame offsets the model keeps: pixels (0,0) and (159,143)
TrackedPixels == {<<0, 0>>, <<FRAME_WIDTH - 1, FRAME_HEIGHT - 1>>}
TrackedOffsets ==
    UNION {{(p[2] * FRAME_WIDTH + p[1]) * 4 + k : k \in 0..3} : p \in TrackedPixels}

\* frame[i] = v, on the tracked offsets
PutFrame(f, i, v) == IF i \in TrackedOffsets THEN Put(f, i, v) ELSE f

\* allocate_new_frame: vec![0u8; FRAME_WIDTH * FRAME_HEIGHT * 4]
allocate_new_frame == EmptyMem

(* ------------------------------------------------------------------ *)
(* FifoMode (fifo_mode.rs) and PixelFifo (pixel_fifo.rs)               *)
(* ------------------------------------------------------------------ *)
OamScanStateDefault ==
    [mode |-> "OamScan", oam_pointer |-> 0, secondary_oam_pointer |-> 0,
     is_visible |-> FALSE]

DrawingStateDefault ==
    [mode |-> "Drawing", pixel_fetcher |-> "GetTile", is_sprite |-> FALSE,
     is_window |-> FALSE, fetcher_x |-> 0, tile_idx |-> 0, cycle |-> 0,
     sprite_idx |-> 0, buffer |-> [i \in 1..8 |-> 0]]

HBlank == [mode |-> "HBlank"]
VBlank == [mode |-> "VBlank"]

\* impl Default for FifoMode
FifoModeDefault == OamScanStateDefault

\* DrawingState::reset: the fetcher goes back to the start of a fetch
DrawingReset(state) == [state EXCEPT !.pixel_fetcher = "GetTile", !.cycle = 0]

\* LcdStatus::set_mode: STAT bits 0..1 (HBlank 0, VBlank 1, OamScan 2, Drawing 3)
ModeNumber(m) ==
    CASE m.mode = "HBlank" -> 0
      [] m.mode = "VBlank" -> 1
      [] m.mode = "OamScan" -> 2
      [] m.mode = "Drawing" -> 3

SetMode(reg, m) == (reg \div 4) * 4 + ModeNumber(m)

PixelFifoDefault == <<>>

FifoIsEmpty(fifo) == Len(fifo) = 0

\* PixelFifo::pop: the front pixel; an empty FIFO yields the transparent pixel 0
FifoFront(fifo) == IF Len(fifo) = 0 THEN 0 ELSE Head(fifo)
FifoPop(fifo) == IF Len(fifo) = 0 THEN fifo ELSE Tail(fifo)

\* n pops in a row
FifoDrain(fifo, n) ==
    IF n >= Len(fifo) THEN <<>> ELSE SubSeq(fifo, n + 1, Len(fifo))

\* PixelFifo::load: push the 8 pixels of the row, leftmost (bit 7) first
FifoLoad(fifo, buffer) ==
    LET all == fifo \o [i \in 1..8 |-> buffer[9 - i]]
    IN  IF Len(all) > FIFO_CAPACITY THEN SubSeq(all, 1, FIFO_CAPACITY) ELSE all

(* ------------------------------------------------------------------ *)
(* State                                                               *)
(* ------------------------------------------------------------------ *)
VARIABLES
    x, y, window_y_counter, window_y_flag, y_compare,
    window_x, window_y, scroll_x, scroll_y,
    vram, vram_bank_register, oam, secondary_oam,
    cgb_bg_palette, cgb_obj_palette,
    greyscale_bg_palette, greyscale_obj_palette,
    lcd_control_reg, lcd_status_reg,
    background_pixel_pipeline, sprite_pixel_pipeline,
    cycle, fifo_mode, frame,
    panicked,     \* a method panicked (an index out of bounds): the Ppu is gone
    \* observations
    irq,          \* bus.request_interrupt calls of the latest clock call, in order
    ticks,        \* clock calls made since construction
    ready_ret,    \* result of the latest ready_frame call since the latest clock call
    ready_prev,   \* result of the ready_frame call before that one, since that clock call
    \* the decoder (src/gband/src/cpu/decoder.rs)
    op,           \* the byte presented to Opcode::from
    opcode,       \* what Opcode::from(op) returned: <<>> before the call
    cycles_ret    \* what cycles() of that Opcode returned: <<>> before the call

ppu == <<x, y, window_y_counter, window_y_flag, y_compare,
         window_x, window_y, scroll_x, scroll_y,
         vram, vram_bank_register, oam, secondary_oam,
         cgb_bg_palette, cgb_obj_palette,
         greyscale_bg_palette, greyscale_obj_palette,
         lcd_control_reg, lcd_status_reg,
         background_pixel_pipeline, sprite_pixel_pipeline,
         cycle, fifo_mode, frame, panicked>>

cpu == <<op, opcode, cycles_ret>>

vars == <<ppu, irq, ticks, ready_ret, ready_prev, cpu>>

\* the Ppu as one value, for the operators that model &mut self methods
Self ==
    [x |-> x, y |-> y, window_y_counter |-> window_y_counter,
     window_y_flag |-> window_y_flag, y_compare |-> y_compare,
     window_x |-> window_x, window_y |-> window_y,
     scroll_x |-> scroll_x, scroll_y |-> scroll_y,
     vram |-> vram, vram_bank_register |-> vram_bank_register,
     oam |-> oam, secondary_oam |-> secondary_oam,
     cgb_bg_palette |-> cgb_bg_palette, cgb_obj_palette |-> cgb_obj_palette,
     greyscale_bg_palette |-> greyscale_bg_palette,
     greyscale_obj_palette |-> greyscale_obj_palette,
     lcd_control_reg |-> lcd_control_reg, lcd_status_reg |-> lcd_status_reg,
     background_pixel_pipeline |-> background_pixel_pipeline,
     sprite_pixel_pipeline |-> sprite_pixel_pipeline,
     cycle |-> cycle, fifo_mode |-> fifo_mode, frame |-> frame,
     panicked |-> panicked, irq |-> <<>>,
     \* the pixels the method wrote to the frame: palette output, place, byte stores
     px |-> <<>>]

\* the Ppu after a method: every field takes the value the method left
Becomes(s) ==
    /\ x' = s.x
    /\ y' = s.y
    /\ window_y_counter' = s.window_y_counter
    /\ window_y_flag' = s.window_y_flag
    /\ y_compare' = s.y_compare
    /\ window_x' = s.window_x
    /\ window_y' = s.window_y
    /\ scroll_x' = s.scroll_x
    /\ scroll_y' = s.scroll_y
    /\ vram' = s.vram
    /\ vram_bank_register' = s.vram_bank_register
    /\ oam' = s.oam
    /\ secondary_oam' = s.secondary_oam
    /\ cgb_bg_palette' = s.cgb_bg_palette
    /\ cgb_obj_palette' = s.cgb_obj_palette
    /\ greyscale_bg_palette' = s.greyscale_bg_palette
    /\ greyscale_obj_palette' = s.greyscale_obj_palette
    /\ lcd_control_reg' = s.lcd_control_reg
    /\ lcd_status_reg' = s.lcd_status_reg
    /\ background_pixel_pipeline' = s.background_pixel_pipeline
    /\ sprite_pixel_pipeline' = s.sprite_pixel_pipeline
    /\ cycle' = s.cycle
    /\ fifo_mode' = s.fifo_mode
    /\ frame' = s.frame
    /\ panicked' = s.panicked

\* CgbPalette (cgb_palette.rs): the index spec byte and the 64 data bytes, which
\* start at 0xFF; data is kept sparse on the bytes that differ from 0xFF
CgbPaletteDefault == [spec |-> 0, data |-> EmptyMem]

\* impl Default for Ppu
PpuNew ==
    /\ x = 0
    /\ y = 0
    /\ window_y_counter = 0
    /\ window_y_flag = FALSE
    /\ y_compare = 0
    /\ window_x = 0
    /\ window_y = 0
    /\ scroll_x = 0
    /\ scroll_y = 0
    /\ vram = EmptyMem
    /\ vram_bank_register = FALSE
    /\ oam = EmptyMem
    /\ secondary_oam = EmptyMem
    /\ lcd_control_reg = 0
    /\ lcd_status_reg = 0
    /\ cgb_bg_palette = CgbPaletteDefault
    /\ cgb_obj_palette = CgbPaletteDefault
    /\ greyscale_bg_palette = 0
    /\ greyscale_obj_palette = <<0, 0>>
    /\ background_pixel_pipeline = PixelFifoDefault
    /\ sprite_pixel_pipeline = PixelFifoDefault
    /\ cycle = 0
    /\ fifo_mode = FifoModeDefault
    /\ frame = allocate_new_frame
    /\ panicked = FALSE
    /\ irq = <<>>
    /\ ticks = 0
    /\ ready_ret = ""
    /\ ready_prev = ""

\* a fresh Ppu; nothing presented to the decoder
Init ==
    /\ PpuNew
    /\ op = 0
    /\ opcode = <<>>
    /\ cycles_ret = <<>>

(* ------------------------------------------------------------------ *)
(* Bit operations on naturals                                          *)
(* ------------------------------------------------------------------ *)
RECURSIVE BitOr(_, _)
BitOr(a, b) ==
    IF a = 0 THEN b
    ELSE IF b = 0 THEN a
    ELSE (IF a % 2 = 1 \/ b % 2 = 1 THEN 1 ELSE 0) + 2 * BitOr(a \div 2, b \div 2)

RECURSIVE BitAnd(_, _)
BitAnd(a, b) ==
    IF a = 0 \/ b = 0 THEN 0
    ELSE (IF a % 2 = 1 /\ b % 2 = 1 THEN 1 ELSE 0) + 2 * BitAnd(a \div 2, b \div 2)

\* bit n of v
Bit(v, n) == (v \div (2 ^ n)) % 2

(* ------------------------------------------------------------------ *)
(* VRAM readers used by the fetcher                                    *)
(* ------------------------------------------------------------------ *)
\* addr & 0x1FFF | if self.vram_bank_register { 0x2000 } else { 0 }
VramIndex(s, addr) == (addr % 8192) + (IF s.vram_bank_register THEN 8192 ELSE 0)

read_vram_unblocked(s, addr) == Get(s.vram, VramIndex(s, addr))

read_obj_tile(s, id, offset) ==
    read_vram_unblocked(s, BitOr(BitOr(32768, id * 16), offset))

read_bg_win_tile(s, id, offset) ==
    IF Contains(s.lcd_control_reg, BACKGROUND_WINDOW_TILE_DATA_AREA)
    THEN read_obj_tile(s, id, offset)
    ELSE IF id < 128
         THEN read_vram_unblocked(s, BitOr(BitOr(36864, id * 16), offset))
         ELSE read_vram_unblocked(s, BitOr(BitOr(34816, (id * 16) % 2048), offset))

read_bg_tile_index(s, id) ==
    IF Contains(s.lcd_control_reg, BACKGROUND_TILE_MAP_AREA)
    THEN read_vram_unblocked(s, BitOr(39936, id))
    ELSE read_vram_unblocked(s, BitOr(38912, id))

read_win_tile_index(s, id) ==
    IF Contains(s.lcd_control_reg, WINDOW_TILE_MAP_AREA)
    THEN read_vram_unblocked(s, BitOr(39936, id))
    ELSE read_vram_unblocked(s, BitOr(38912, id))

(* ------------------------------------------------------------------ *)
(* render: OAM scan                                                    *)
(* ------------------------------------------------------------------ *)
SpriteHeight(s) == IF Contains(s.lcd_control_reg, OBJ_SIZE) THEN 16 ELSE 8

\* the OamScan arm of render
RenderOamScan(s) ==
    LET m == s.fifo_mode
    IN  IF s.cycle % 2 = 0
        THEN \* even cycle: fetch the y value and check if it's visible
             LET oy == Get(s.oam, m.oam_pointer)
                 y_remainder == WrappingAdd(WrappingSub(s.y, oy), 16)
                 vis == (y_remainder < SpriteHeight(s))
                        /\ (Get(s.oam, m.oam_pointer + 1) > 0)
             IN  [s EXCEPT !.fifo_mode = [m EXCEPT !.is_visible = vis]]
        ELSE \* odd cycle: copy it to the secondary OAM
             LET copy == m.is_visible /\ m.secondary_oam_pointer < SECONDARY_OAM_LEN
                 sec0 == s.secondary_oam
                 sec1 == Put(sec0, m.secondary_oam_pointer, Get(s.oam, m.oam_pointer))
                 sec2 == Put(sec1, m.secondary_oam_pointer + 1, Get(s.oam, m.oam_pointer + 1))
                 sec3 == Put(sec2, m.secondary_oam_pointer + 2, Get(s.oam, m.oam_pointer + 2))
                 sec4 == Put(sec3, m.secondary_oam_pointer + 3, Get(s.oam, m.oam_pointer + 3))
             IN  [s EXCEPT
                    !.secondary_oam = IF copy THEN sec4 ELSE sec0,
                    !.fifo_mode =
                        [m EXCEPT
                           !.secondary_oam_pointer = IF copy THEN @ + 4 ELSE @,
                           !.oam_pointer = @ + 4]]

(* ------------------------------------------------------------------ *)
(* render: Drawing                                                     *)
(* ------------------------------------------------------------------ *)
\* WindowFlag as a comparison that is not latched
WindowFlag_Unlatched(s) == s.y = s.window_y

\* "Check for window": the latch, and the switch of the fetcher to the window
WindowFlag(s) == IF s.y = s.window_y THEN TRUE ELSE s.window_y_flag

WindowTrigger(s, state) ==
    IF /\ ~state.is_window
       /\ Contains(s.lcd_control_reg, WINDOW_ENABLE)
       /\ WindowFlag(s)
       /\ s.x >= WrappingSub(s.window_x, 7)
    THEN [DrawingReset(state) EXCEPT !.is_window = TRUE, !.fetcher_x = 0]
    ELSE state

\* SpriteMatches with `x_remainder <= 8`
SpriteMatches_Wide(s) ==
    {index \in 0..((SECONDARY_OAM_LEN \div 4) - 1) :
        WrappingAdd(WrappingSub(s.x, Get(s.secondary_oam, index * 4 + 1)), 8) <= 8}

\* "Check for sprites": the secondary OAM entries the current x falls in
SpriteMatches(s) ==
    {index \in 0..((SECONDARY_OAM_LEN \div 4) - 1) :
        WrappingAdd(WrappingSub(s.x, Get(s.secondary_oam, index * 4 + 1)), 8) < 8}

Min(S) == CHOOSE m \in S : \A n \in S : m <= n

SpriteTrigger(s, state) ==
    IF /\ ~state.is_sprite
       /\ Contains(s.lcd_control_reg, OBJ_ENABLE)
       /\ SpriteMatches(s) # {}
    THEN [DrawingReset(state) EXCEPT
            !.is_sprite = TRUE, !.sprite_idx = Min(SpriteMatches(s)) * 4]
    ELSE state

\* GetTile, cycle 0: the tile index of the next 8 pixels
FetchTileIdx(s, state) ==
    IF state.is_sprite
    THEN Get(s.secondary_oam, state.sprite_idx + 2)
    ELSE IF state.is_window
    THEN LET x_index == WrappingSub(state.fetcher_x, s.window_x \div 8) % 32
             y_index == s.window_y_counter \div 8
         IN  read_win_tile_index(s, BitOr(y_index * 32, x_index % 32))
    ELSE LET x_index == (((s.scroll_x \div 8) + state.fetcher_x) % 256) % 32
             y_index == WrappingAdd(s.y, s.scroll_y) \div 8
         IN  read_bg_tile_index(s, BitOr(y_index * 32, x_index))

\* GetTileLow / GetTileHigh, cycle 0: one bit plane of the tile row (plane 0 or 1)
FetchTileData(s, state, plane) ==
    IF state.is_sprite
    THEN LET sprite_size == IF Contains(s.lcd_control_reg, OBJ_SIZE) THEN 15 ELSE 7
             y0 == BitAnd(WrappingAdd(WrappingSub(s.y, Get(s.secondary_oam, state.sprite_idx)), 16),
                          sprite_size)
             fine_y == IF BitAnd(Get(s.secondary_oam, state.sprite_idx + 3), 64) > 0
                       THEN sprite_size - y0 ELSE y0
             tile_id == IF Contains(s.lcd_control_reg, OBJ_SIZE)
                        THEN BitOr(BitAnd(state.tile_idx, 254), BitAnd(fine_y, 8) \div 8)
                        ELSE state.tile_idx
         IN  read_obj_tile(s, tile_id, BitOr((fine_y * 2) % 256, plane))
    ELSE LET row == IF state.is_window
                    THEN s.window_y_counter % 8
                    ELSE WrappingAdd(s.y, s.scroll_y) % 8
         IN  read_bg_win_tile(s, state.tile_idx, BitOr(row * 2, plane))

\* RemoveSprite that leaves the X byte alone
RemoveSprite_Keep(secondary, state) == secondary

\* "Remove the sprite": self.secondary_oam[(state.sprite_idx + 1) as usize] = 0
RemoveSprite(secondary, state) == Put(secondary, state.sprite_idx + 1, 0)

\* the fetcher's step of this dot: `match state.pixel_fetcher`
\* result: the Ppu and the DrawingState after the step
FetcherStep(s, state) ==
    CASE state.pixel_fetcher = "GetTile" ->
           IF state.cycle = 0
           THEN [s |-> s,
                 state |-> [state EXCEPT !.tile_idx = FetchTileIdx(s, state),
                                         !.cycle = @ + 1]]
           ELSE [s |-> s,
                 state |-> [state EXCEPT !.pixel_fetcher = "GetTileLow", !.cycle = 0]]
      [] state.pixel_fetcher = "GetTileLow" ->
           IF state.cycle = 0
           THEN LET tile_data == FetchTileData(s, state, 0)
                IN  [s |-> s,
                     state |-> [state EXCEPT
                                  !.buffer = [i \in 1..8 |-> Bit(tile_data, i - 1)],
                                  !.cycle = @ + 1]]
           ELSE [s |-> s,
                 state |-> [state EXCEPT !.pixel_fetcher = "GetTileHigh", !.cycle = 0]]
      [] state.pixel_fetcher = "GetTileHigh" ->
           IF state.cycle = 0
           THEN LET tile_data == FetchTileData(s, state, 1)
                IN  [s |-> s,
                     state |-> [state EXCEPT
                                  !.buffer = [i \in 1..8 |->
                                                BitOr(state.buffer[i], Bit(tile_data, i - 1) * 2)],
                                  !.cycle = @ + 1]]
           ELSE [s |-> s,
                 state |-> [state EXCEPT !.pixel_fetcher = "Push", !.cycle = 0]]
      [] state.pixel_fetcher = "Push" ->
           IF state.is_sprite
           THEN LET sprite_properties == Get(s.secondary_oam, state.sprite_idx + 3)
                    flipped == IF BitAnd(sprite_properties, 32) > 0
                               THEN [i \in 1..8 |-> state.buffer[9 - i]]
                               ELSE state.buffer
                    buf == [i \in 1..8 |-> BitOr(flipped[i], BitAnd(sprite_properties, 144))]
                    loaded == FifoLoad(s.sprite_pixel_pipeline, buf)
                    \* 0..(8 - X): the u8 subtraction, as the wrapping build computes it
                    drained == IF s.x = 0
                               THEN FifoDrain(loaded,
                                        WrappingSub(8, Get(s.secondary_oam, state.sprite_idx + 1)))
                               ELSE loaded
                IN  [s |-> [s EXCEPT
                              !.sprite_pixel_pipeline = drained,
                              !.secondary_oam = RemoveSprite(@, state)],
                     state |-> [state EXCEPT
                                  !.buffer = buf,
                                  !.pixel_fetcher = "GetTile",
                                  !.is_sprite = FALSE]]
           ELSE IF FifoIsEmpty(s.background_pixel_pipeline)
           THEN LET loaded == FifoLoad(s.background_pixel_pipeline, state.buffer)
                    drained == IF ~state.is_window
                               THEN FifoDrain(loaded, WrappingAdd(s.scroll_x, s.x) % 8)
                               ELSE loaded
                IN  [s |-> [s EXCEPT !.background_pixel_pipeline = drained],
                     state |-> [state EXCEPT
                                  !.pixel_fetcher = "GetTile",
                                  !.fetcher_x = @ + 1]]
           ELSE [s |-> s, state |-> state]

\* MixPixel without the BG-over-OBJ test
MixPixel_NoPriority(s, background_pixel, sprite_pixel) ==
    LET sprite_palette == BitAnd(sprite_pixel, 16) \div 16
    IN  IF \/ ~Contains(s.lcd_control_reg, OBJ_ENABLE)
           \/ sprite_pixel % 4 = 0
        THEN IF Contains(s.lcd_control_reg, BACKGROUND_WINDOW_ENABLE_PRIORITY)
             THEN (s.greyscale_bg_palette \div (2 ^ ((background_pixel % 4) * 2))) % 4
             ELSE s.greyscale_bg_palette % 4
        ELSE (s.greyscale_obj_palette[sprite_palette + 1]
                \div (2 ^ ((sprite_pixel % 4) * 2))) % 4

\* "Rendering...": the colour of the popped pair of pixels
MixPixel(s, background_pixel, sprite_pixel) ==
    LET sprite_palette == BitAnd(sprite_pixel, 16) \div 16
        bg_over_obj == BitAnd(sprite_pixel, 128) = 128
    IN  IF \/ ~Contains(s.lcd_control_reg, OBJ_ENABLE)
           \/ sprite_pixel % 4 = 0
           \/ (bg_over_obj /\ background_pixel % 4 # 0)
        THEN IF Contains(s.lcd_control_reg, BACKGROUND_WINDOW_ENABLE_PRIORITY)
             THEN (s.greyscale_bg_palette \div (2 ^ ((background_pixel % 4) * 2))) % 4
             ELSE s.greyscale_bg_palette % 4
        ELSE (s.greyscale_obj_palette[sprite_palette + 1]
                \div (2 ^ ((sprite_pixel % 4) * 2))) % 4

\* Greyscale without the `!`
Greyscale_NoInvert(pixel) == ((pixel % 4) * 64) % 256

\* !(pixel as u8 & 3) << 6
Greyscale(pixel) == ((255 - (pixel % 4)) * 64) % 256

\* EnterHBlank without the `if state.is_window` around the counter
EnterHBlank_CountEveryLine(s, state) ==
    [s EXCEPT
       !.background_pixel_pipeline = PixelFifoDefault,
       !.sprite_pixel_pipeline = PixelFifoDefault,
       !.secondary_oam = EmptyMem,
       !.window_y_counter = @ + 1,
       !.fifo_mode = HBlank,
       !.irq = IF Contains(s.lcd_status_reg, HBANLK_INTERUPT_SOURCE)
               THEN Append(@, "LCD_STAT") ELSE @]

\* "We enter HBlank here"
EnterHBlank(s, state) ==
    [s EXCEPT
       !.background_pixel_pipeline = PixelFifoDefault,
       !.sprite_pixel_pipeline = PixelFifoDefault,
       !.secondary_oam = EmptyMem,
       !.window_y_counter = IF state.is_window THEN @ + 1 ELSE @,
       !.fifo_mode = HBlank,
       !.irq = IF Contains(s.lcd_status_reg, HBANLK_INTERUPT_SOURCE)
               THEN Append(@, "LCD_STAT") ELSE @]

\* "Rendering...": pop a pixel of each FIFO, mix, write it to the frame, advance x
OutputPixel(s, state) ==
    IF ~FifoIsEmpty(s.background_pixel_pipeline) /\ ~state.is_sprite
    THEN LET background_pixel == FifoFront(s.background_pixel_pipeline)
             sprite_pixel == FifoFront(s.sprite_pixel_pipeline)
             popped == [s EXCEPT
                          !.background_pixel_pipeline = FifoPop(@),
                          !.sprite_pixel_pipeline = FifoPop(@),
                          !.fifo_mode = state]
             pixel == MixPixel(s, background_pixel, sprite_pixel)
             greyscale == Greyscale(pixel)
             base == (s.y * FRAME_WIDTH + s.x) * 4
         IN  IF base + 3 < FRAME_LEN
             THEN LET written ==
                        [popped EXCEPT
                           !.frame = PutFrame(PutFrame(PutFrame(PutFrame(@,
                                        base, greyscale), base + 1, greyscale),
                                        base + 2, greyscale), base + 3, greyscale),
                           !.px = Append(@, [pixel |-> pixel, x |-> s.x, y |-> s.y,
                                             bytes |-> <<<<base, greyscale>>,
                                                         <<base + 1, greyscale>>,
                                                         <<base + 2, greyscale>>,
                                                         <<base + 3, greyscale>>>>]),
                           !.x = @ + 1]
                  IN  IF written.x >= FRAME_WIDTH
                      THEN EnterHBlank(written, state)
                      ELSE written
             ELSE popped
    ELSE [s EXCEPT !.fifo_mode = state]

\* the Drawing arm of render up to the compositor: the window check, the sprite
\* check and the fetcher's step
Fetched(s) ==
    LET latched == [s EXCEPT !.window_y_flag = WindowFlag(s)]
        st1 == WindowTrigger(latched, latched.fifo_mode)
        st2 == SpriteTrigger(latched, st1)
    IN  FetcherStep(latched, st2)

\* the Drawing arm of render
RenderDrawing(s) ==
    LET fetched == Fetched(s)
    IN  OutputPixel(fetched.s, fetched.state)

\* fn render
render(s) ==
    CASE s.fifo_mode.mode = "OamScan" -> RenderOamScan(s)
      [] s.fifo_mode.mode = "Drawing" -> RenderDrawing(s)
      [] OTHER -> s

(* ------------------------------------------------------------------ *)
(* clock                                                               *)
(* ------------------------------------------------------------------ *)
\* bus.request_interrupt(kind)
RequestInterrupt(s, kind) == [s EXCEPT !.irq = Append(@, kind)]

\* RequestStatIf without the `contains` test
RequestStatIf_Unconditional(s, source) == RequestInterrupt(s, "LCD_STAT")

RequestStatIf(s, source) ==
    IF Contains(s.lcd_status_reg, source) THEN RequestInterrupt(s, "LCD_STAT") ELSE s

\* EnterLine with the V-Blank lines starting one line early (143..=153)
EnterLine_EarlyVBlank(s) ==
    IF s.y >= VBLANK_START - 1 /\ s.y <= LINES_PER_FRAME - 1
    THEN LET v == [s EXCEPT !.fifo_mode = VBlank]
         IN  IF v.y = VBLANK_START - 1
             THEN RequestStatIf(RequestInterrupt(v, "VBLANK"), VBANLK_INTERUPT_SOURCE)
             ELSE v
    ELSE IF s.y = LINES_PER_FRAME
    THEN RequestStatIf([s EXCEPT !.y = 0,
                                 !.window_y_counter = 0,
                                 !.window_y_flag = FALSE,
                                 !.fifo_mode = OamScanStateDefault],
                       OAM_INTERUPT_SOURCE)
    ELSE RequestStatIf([s EXCEPT !.fifo_mode = OamScanStateDefault],
                       OAM_INTERUPT_SOURCE)

\* EnterLine with the frame ending one line early (y == 153)
EnterLine_ShortFrame(s) ==
    IF s.y >= VBLANK_START /\ s.y <= LINES_PER_FRAME - 2
    THEN LET v == [s EXCEPT !.fifo_mode = VBlank]
         IN  IF v.y = VBLANK_START
             THEN RequestStatIf(RequestInterrupt(v, "VBLANK"), VBANLK_INTERUPT_SOURCE)
             ELSE v
    ELSE IF s.y = LINES_PER_FRAME - 1
    THEN RequestStatIf([s EXCEPT !.y = 0,
                                 !.window_y_counter = 0,
                                 !.window_y_flag = FALSE,
                                 !.fifo_mode = OamScanStateDefault],
                       OAM_INTERUPT_SOURCE)
    ELSE RequestStatIf([s EXCEPT !.fifo_mode = OamScanStateDefault],
                       OAM_INTERUPT_SOURCE)

\* EnterLine without the `if self.y == 144` around the V-Blank requests
EnterLine_VBlankEveryLine(s) ==
    IF s.y >= VBLANK_START /\ s.y <= LINES_PER_FRAME - 1
    THEN RequestStatIf(RequestInterrupt([s EXCEPT !.fifo_mode = VBlank], "VBLANK"),
                       VBANLK_INTERUPT_SOURCE)
    ELSE IF s.y = LINES_PER_FRAME
    THEN RequestStatIf([s EXCEPT !.y = 0,
                                 !.window_y_counter = 0,
                                 !.window_y_flag = FALSE,
                                 !.fifo_mode = OamScanStateDefault],
                       OAM_INTERUPT_SOURCE)
    ELSE RequestStatIf([s EXCEPT !.fifo_mode = OamScanStateDefault],
                       OAM_INTERUPT_SOURCE)

\* `match self.y` of the scanline advance
EnterLine(s) ==
    IF s.y >= VBLANK_START /\ s.y <= LINES_PER_FRAME - 1
    THEN LET v == [s EXCEPT !.fifo_mode = VBlank]
         IN  IF v.y = VBLANK_START
             THEN RequestStatIf(RequestInterrupt(v, "VBLANK"), VBANLK_INTERUPT_SOURCE)
             ELSE v
    ELSE IF s.y = LINES_PER_FRAME
    THEN RequestStatIf([s EXCEPT !.y = 0,
                                 !.window_y_counter = 0,
                                 !.window_y_flag = FALSE,
                                 !.fifo_mode = OamScanStateDefault],
                       OAM_INTERUPT_SOURCE)
    ELSE RequestStatIf([s EXCEPT !.fifo_mode = OamScanStateDefault],
                       OAM_INTERUPT_SOURCE)

\* `if self.y == self.y_compare`
LycCheck(s) ==
    IF s.y = s.y_compare THEN RequestStatIf(s, LYC_EQ_LC_INTERUPT_SOURCE) ELSE s

\* AdvanceScanline without `self.x = 0`
AdvanceScanline_KeepX(s) ==
    LycCheck(EnterLine([s EXCEPT !.cycle = 0, !.y = @ + 1]))

\* AdvanceScanline with the LYC comparison made before `match self.y`
AdvanceScanline_LycFirst(s) ==
    EnterLine(LycCheck([s EXCEPT !.cycle = 0, !.x = 0, !.y = @ + 1]))

\* `if self.cycle == 456 { ... }`
AdvanceScanline(s) ==
    LycCheck(EnterLine([s EXCEPT !.cycle = 0, !.x = 0, !.y = @ + 1]))

\* EnterDrawing one dot late (`81 =>`)
EnterDrawing_Late(s) ==
    IF s.y < VBLANK_START /\ s.cycle = OAM_SCAN_DOTS + 1
    THEN [s EXCEPT !.fifo_mode = DrawingStateDefault]
    ELSE s

\* `if self.y < 144 { match self.cycle { 80 => ... } }`
EnterDrawing(s) ==
    IF s.y < VBLANK_START /\ s.cycle = OAM_SCAN_DOTS
    THEN [s EXCEPT !.fifo_mode = DrawingStateDefault]
    ELSE s

\* clock up to the call of render
BeforeRender(s) ==
    LET s1 == [s EXCEPT !.cycle = @ + 1]
        s2 == EnterDrawing(s1)
    IN  IF s2.cycle = DOTS_PER_LINE THEN AdvanceScanline(s2) ELSE s2

\* pub fn clock
clock(s) == render(BeforeRender(s))

Clock ==
    /\ ~panicked
    /\ ticks < MaxTicks
    /\ LET s == clock(Self)
       IN  Becomes(s) /\ irq' = s.irq
    /\ ticks' = ticks + 1
    /\ ready_ret' = ""
    /\ ready_prev' = ""
    /\ UNCHANGED cpu

(* ------------------------------------------------------------------ *)
(* ready_frame                                                         *)
(* ------------------------------------------------------------------ *)
\* pub fn ready_frame: the Ppu after the call and what the call returned
ready_frame(s) ==
    IF s.y = 0 /\ s.cycle = 0
    THEN [s |-> [s EXCEPT !.frame = allocate_new_frame], ret |-> "Some", frame |-> s.frame]
    ELSE [s |-> s, ret |-> "None", frame |-> EmptyMem]

ReadyFrame ==
    /\ ~panicked
    /\ LET r == ready_frame(Self)
       IN  Becomes(r.s) /\ ready_ret' = r.ret
    /\ ready_prev' = ready_ret
    /\ UNCHANGED <<irq, ticks, cpu>>

(* ------------------------------------------------------------------ *)
(* VRAM and OAM ports                                                  *)
(* ------------------------------------------------------------------ *)
\* pub fn write_vram: both arms of the match store the byte
write_vram(s, addr, data) ==
    IF s.fifo_mode.mode = "Drawing"
    THEN [s EXCEPT !.vram = Put(@, VramIndex(s, addr), data)]
    ELSE [s EXCEPT !.vram = Put(@, VramIndex(s, addr), data)]

\* read_vram without the Drawing block
read_vram_Unblocked(s, addr) == read_vram_unblocked(s, addr)

\* pub fn read_vram
read_vram(s, addr) ==
    IF s.fifo_mode.mode = "Drawing" THEN 255 ELSE read_vram_unblocked(s, addr)

\* pub fn write_oam: the write block is commented out; oam[addr & 0xFF] = data
write_oam(s, addr, data, force) ==
    LET a == addr % 256
    IN  IF a < OAM_LEN THEN [s EXCEPT !.oam = Put(@, a, data)]
        ELSE [s EXCEPT !.panicked = TRUE]

\* pub fn read_oam: the read block is commented out; oam[addr & 0xFF]
read_oam(s, addr, force) == Get(s.oam, addr % 256)

\* pub fn read_oam panics: oam[addr & 0xFF] with an index outside the array
read_oam_panics(s, addr, force) == addr % 256 >= OAM_LEN

WriteVram(addr, data) ==
    /\ ~panicked
    /\ Becomes(write_vram(Self, addr, data))
    /\ UNCHANGED <<irq, ticks, ready_ret, ready_prev, cpu>>

WriteOam(addr, data, force) ==
    /\ ~panicked
    /\ Becomes(write_oam(Self, addr, data, force))
    /\ UNCHANGED <<irq, ticks, ready_ret, ready_prev, cpu>>

\* the four write_oam calls that store one OAM entry, with no clock call between
WriteOamEntry(n, entry) ==
    /\ ~panicked
    /\ Becomes(write_oam(write_oam(write_oam(write_oam(Self,
                  65024 + 4 * n, entry[1], FALSE),
                  65024 + 4 * n + 1, entry[2], FALSE),
                  65024 + 4 * n + 2, entry[3], FALSE),
                  65024 + 4 * n + 3, entry[4], FALSE))
    /\ UNCHANGED <<irq, ticks, ready_ret, ready_prev, cpu>>

(* ------------------------------------------------------------------ *)
(* The register file                                                   *)
(* ------------------------------------------------------------------ *)
\* CgbPalette::write_spec / read_spec / write_data / read_data
cgb_write_spec(p, data) == [p EXCEPT !.spec = data]
cgb_read_spec(p) == p.spec
cgb_read_data(p, m) ==
    IF m.mode = "Drawing" THEN 255
    ELSE IF (p.spec % 64) \in DOMAIN p.data THEN p.data[p.spec % 64] ELSE 255
cgb_write_data(p, data, m) ==
    IF m.mode = "Drawing" THEN p
    ELSE [spec |-> IF Contains(p.spec, 128)
                   THEN ((p.spec \div 64) * 64) + (((p.spec % 64) + 1) % 64)
                   ELSE p.spec,
          data |-> IF data = 255
                   THEN [j \in (DOMAIN p.data) \ {p.spec % 64} |-> p.data[j]]
                   ELSE [j \in (DOMAIN p.data) \cup {p.spec % 64} |->
                            IF j = p.spec % 64 THEN data ELSE p.data[j]]]

\* write_lcd_status without the mask
write_lcd_status_Unmasked(s, data) == [s EXCEPT !.lcd_status_reg = data]

\* fn write_lcd_status: only bits 3..6 (mask 0b01111000) are writeable
write_lcd_status(s, data) ==
    [s EXCEPT !.lcd_status_reg = BitOr(BitAnd(@, 135), BitAnd(data, 120))]

\* read_lcd_status without the update of the LYC=LY bit
read_lcd_status_StaleLyc(s) == SetMode(s.lcd_status_reg, s.fifo_mode)

\* fn read_lcd_status
read_lcd_status(s) ==
    SetMode(SetFlag(s.lcd_status_reg, LYC_EQ_LC, s.y = s.y_compare), s.fifo_mode)

\* fn write_lcd_control / read_lcd_control
write_lcd_control(s, data) == [s EXCEPT !.lcd_control_reg = data]
read_lcd_control(s) == s.lcd_control_reg

\* pub fn write
write(s, addr, data) ==
    CASE addr = 65344 -> write_lcd_control(s, data)
      [] addr = 65345 -> write_lcd_status(s, data)
      [] addr = 65346 -> [s EXCEPT !.scroll_y = data]
      [] addr = 65347 -> [s EXCEPT !.scroll_x = data]
      [] addr = 65348 -> s
      [] addr = 65349 -> [s EXCEPT !.y_compare = data]
      [] addr = 65351 -> [s EXCEPT !.greyscale_bg_palette = data]
      [] addr = 65352 \/ addr = 65353 ->
           [s EXCEPT !.greyscale_obj_palette[(addr % 2) + 1] = data]
      [] addr = 65354 -> [s EXCEPT !.window_y = data]
      [] addr = 65355 -> [s EXCEPT !.window_x = data]
      [] addr = 65356 -> s
      [] addr = 65384 -> [s EXCEPT !.cgb_bg_palette = cgb_write_spec(@, data)]
      [] addr = 65385 -> [s EXCEPT !.cgb_bg_palette = cgb_write_data(@, data, s.fifo_mode)]
      [] addr = 65386 -> [s EXCEPT !.cgb_obj_palette = cgb_write_spec(@, data)]
      [] addr = 65387 -> [s EXCEPT !.cgb_obj_palette = cgb_write_data(@, data, s.fifo_mode)]
      [] OTHER -> s

\* read with 0xFF for an address that is not recognised
read_OpenBus(s, addr) ==
    CASE addr = 65344 -> read_lcd_control(s)
      [] addr = 65345 -> read_lcd_status(s)
      [] addr = 65346 -> s.scroll_y
      [] addr = 65347 -> s.scroll_x
      [] addr = 65348 -> s.y
      [] addr = 65349 -> s.y_compare
      [] addr = 65351 -> s.greyscale_bg_palette
      [] addr = 65352 \/ addr = 65353 -> s.greyscale_obj_palette[(addr % 2) + 1]
      [] addr = 65354 -> s.window_y
      [] addr = 65355 -> s.window_x
      [] addr = 65356 -> 255
      [] addr = 65384 -> cgb_read_spec(s.cgb_bg_palette)
      [] addr = 65385 -> cgb_read_data(s.cgb_bg_palette, s.fifo_mode)
      [] addr = 65386 -> cgb_read_spec(s.cgb_obj_palette)
      [] addr = 65387 -> cgb_read_data(s.cgb_obj_palette, s.fifo_mode)
      [] OTHER -> 255

\* pub fn read
read(s, addr) ==
    CASE addr = 65344 -> read_lcd_control(s)
      [] addr = 65345 -> read_lcd_status(s)
      [] addr = 65346 -> s.scroll_y
      [] addr = 65347 -> s.scroll_x
      [] addr = 65348 -> s.y
      [] addr = 65349 -> s.y_compare
      [] addr = 65351 -> s.greyscale_bg_palette
      [] addr = 65352 \/ addr = 65353 -> s.greyscale_obj_palette[(addr % 2) + 1]
      [] addr = 65354 -> s.window_y
      [] addr = 65355 -> s.window_x
      [] addr = 65356 -> 255
      [] addr = 65384 -> cgb_read_spec(s.cgb_bg_palette)
      [] addr = 65385 -> cgb_read_data(s.cgb_bg_palette, s.fifo_mode)
      [] addr = 65386 -> cgb_read_spec(s.cgb_obj_palette)
      [] addr = 65387 -> cgb_read_data(s.cgb_obj_palette, s.fifo_mode)
      [] OTHER -> 0

Write(addr, data) ==
    /\ ~panicked
    /\ Becomes(write(Self, addr, data))
    /\ UNCHANGED <<irq, ticks, ready_ret, ready_prev, cpu>>

(* ------------------------------------------------------------------ *)
(* The opcode decoder (src/gband/src/cpu/decoder.rs)                   *)
(* ------------------------------------------------------------------ *)
\* #[derive(TryFromPrimitive)] enum Register: 6 is not a register
Register_try_from(n) ==
    IF n = 0 THEN "B" ELSE IF n = 1 THEN "C" ELSE IF n = 2 THEN "D"
    ELSE IF n = 3 THEN "E" ELSE IF n = 4 THEN "H" ELSE IF n = 5 THEN "L"
    ELSE IF n = 7 THEN "A" ELSE "Err"

\* #[derive(TryFromPrimitive)] enum RegisterPair
RegisterPair_try_from(n) ==
    IF n = 0 THEN "BC" ELSE IF n = 1 THEN "DE" ELSE IF n = 2 THEN "HL"
    ELSE IF n = 3 THEN "SP" ELSE IF n = 4 THEN "AF" ELSE "Err"

\* #[derive(TryFromPrimitive)] enum Alu
Alu_try_from(n) ==
    IF n = 0 THEN "Add" ELSE IF n = 1 THEN "Adc" ELSE IF n = 2 THEN "Sub"
    ELSE IF n = 3 THEN "Sbc" ELSE IF n = 4 THEN "And" ELSE IF n = 5 THEN "Xor"
    ELSE IF n = 6 THEN "Or" ELSE IF n = 7 THEN "Cp" ELSE "Err"

\* enum OpMemAddress16 / OpMemAddress8
MemRegister(r) == <<"Register", r>>
MemRegisterIncrease(r) == <<"RegisterIncrease", r>>
MemRegisterDecrease(r) == <<"RegisterDecrease", r>>
MemImmediate == <<"Immediate">>

\* a value of enum Opcode
Op(variant, args) == [variant |-> variant, args |-> args]

\* the call did not return: `.expect(...)` on an Err panics
Panic == [variant |-> "Panic", args |-> <<>>]

\* value, if every try_from of the arm returned Ok
Expect(tried, value) ==
    IF \E i \in DOMAIN tried : tried[i] = "Err" THEN Panic ELSE value

\* the fields of the encodings xx,yyy,zzz and xx,ppq,zzz
Field_yyy(b) == BitAnd(b, \o070) \div 8
Field_zzz(b) == BitAnd(b, \o007)
Field_pp(b) == BitAnd(b, \b00110000) \div 16

\* `if let RegisterPair::SP = source { RegisterPair::HL } else { source }`
PushPopPair(pair) == IF pair = "SP" THEN "HL" ELSE pair

\* impl From<u8> for Opcode: the arms of `match &op`, in order
from(b) ==
    IF b \in (\h40..\h45) \cup (\h47..\h4D) \cup (\h4F..\h55) \cup (\h57..\h5D)
            \cup (\h5F..\h65) \cup (\h67..\h6D) \cup (\h6F..\h6F) \cup (\h78..\h7D)
            \cup {\h7F}
    THEN LET target == Register_try_from(Field_yyy(b))
             source == Register_try_from(Field_zzz(b))
         IN  Expect(<<target, source>>, Op("LdRR", <<target, source>>))
    ELSE IF b \in {\h06, \h0E, \h16, \h1E, \h26, \h2E, \h3E}
    THEN LET target == Register_try_from(Field_yyy(b))
         IN  Expect(<<target>>, Op("LdRImm", <<target>>))
    ELSE IF b \in {\h46, \h4E, \h56, \h5E, \h66, \h6E, \h76, \h7E}
    THEN LET target == Register_try_from(Field_yyy(b))
         IN  Expect(<<target>>, Op("LdRMem", <<target, MemRegister("HL")>>))
    ELSE IF b \in {\h0A, \h1A}
    THEN LET source == RegisterPair_try_from(Field_pp(b))
         IN  Expect(<<source>>, Op("LdRMem", <<"A", MemRegister(source)>>))
    ELSE IF b = \h2A THEN Op("LdRMem", <<"A", MemRegisterIncrease("HL")>>)
    ELSE IF b = \h3A THEN Op("LdRMem", <<"A", MemRegisterDecrease("HL")>>)
    ELSE IF b = \hFA THEN Op("LdRMem", <<"A", MemImmediate>>)
    ELSE IF b \in \h70..\h77
    THEN LET source == Register_try_from(Field_zzz(b))
         IN  Expect(<<source>>, Op("LdMemR", <<MemRegister("HL"), source>>))
    ELSE IF b \in {\h02, \h12}
    THEN LET target == RegisterPair_try_from(Field_pp(b))
         IN  Expect(<<target>>, Op("LdMemR", <<MemRegister(target), "A">>))
    ELSE IF b = \h22 THEN Op("LdMemR", <<MemRegisterIncrease("HL"), "A">>)
    ELSE IF b = \h32 THEN Op("LdMemR", <<MemRegisterDecrease("HL"), "A">>)
    ELSE IF b = \hEA THEN Op("LdMemR", <<MemImmediate, "A">>)
    ELSE IF b = \h36 THEN Op("LdMemImm", <<"HL">>)
    ELSE IF b = \hF2 THEN Op("LdhRead", <<"A", MemRegister("C")>>)
    ELSE IF b = \hF0 THEN Op("LdhRead", <<"A", MemImmediate>>)
    ELSE IF b = \hE2 THEN Op("LdhWrite", <<MemRegister("C"), "A">>)
    ELSE IF b = \hE0 THEN Op("LdhWrite", <<MemImmediate, "A">>)
    ELSE IF b \in {\h01, \h11, \h21, \h31}
    THEN LET target == RegisterPair_try_from(Field_pp(b))
         IN  Expect(<<target>>, Op("Ld16RImm", <<target>>))
    ELSE IF b = \h08 THEN Op("Ld16MemSp", <<>>)
    ELSE IF b = \hF9 THEN Op("Ld16SpHL", <<>>)
    ELSE IF b \in {\hC5, \hD5, \hE5, \hF5}
    THEN LET source == RegisterPair_try_from(Field_pp(b))
         IN  Expect(<<source>>, Op("Push", <<PushPopPair(source)>>))
    ELSE IF b \in {\hC1, \hD1, \hE1, \hF1}
    THEN LET target == RegisterPair_try_from(Field_pp(b))
         IN  Expect(<<target>>, Op("Pop", <<PushPopPair(target)>>))
    ELSE IF b \in (\h80..\h85) \cup (\h87..\h8D) \cup (\h8F..\h95) \cup (\h97..\h9D)
            \cup (\h9F..\hA5) \cup (\hA7..\hAD) \cup (\hAF..\hB5) \cup (\hB7..\hBD)
            \cup {\hBF}
    THEN LET alu_op == Alu_try_from(Field_yyy(b))
             source == Register_try_from(Field_zzz(b))
         IN  Expect(<<alu_op, source>>, Op("AluR", <<alu_op, source>>))
    ELSE IF b \in {\hC6, \hCE, \hD6, \hDE, \hE6, \hEE, \hF6, \hFE}
    THEN LET alu_op == Alu_try_from(Field_yyy(b))
         IN  Expect(<<alu_op>>, Op("AluImm", <<alu_op>>))
    ELSE IF b \in {\h86, \h8E, \h96, \h9E, \hA6, \hAE, \hB6, \hBE}
    THEN LET alu_op == Alu_try_from(Field_yyy(b))
         IN  Expect(<<alu_op>>, Op("AluMem", <<alu_op>>))
    ELSE IF b \in {\h04, \h0C, \h14, \h1C, \h24, \h2C, \h3C}
    THEN LET source == Register_try_from(Field_yyy(b))
         IN  Expect(<<source>>, Op("IncR", <<source>>))
    ELSE IF b = \h34 THEN Op("IncMem", <<>>)
    ELSE IF b \in {\h05, \h0D, \h15, \h1D, \h25, \h2D, \h3D}
    THEN LET source == Register_try_from(Field_yyy(b))
         IN  Expect(<<source>>, Op("DecR", <<source>>))
    ELSE IF b = \h35 THEN Op("DecMem", <<>>)
    ELSE IF b = \h27 THEN Op("Daa", <<>>)
    ELSE IF b = \h2F THEN Op("Cpl", <<>>)
    ELSE IF b \in {\h09, \h19, \h29, \h39}
    THEN LET source == RegisterPair_try_from(Field_pp(b))
         IN  Expect(<<source>>, Op("Add16HL", <<source>>))
    ELSE IF b = \hE8 THEN Op("Add16SPSigned", <<>>)
    ELSE IF b \in {\h03, \h13, \h23, \h33}
    THEN LET source == RegisterPair_try_from(Field_pp(b))
         IN  Expect(<<source>>, Op("Inc16R", <<source>>))
    ELSE IF b \in {\h0B, \h1B, \h2B, \h3B}
    THEN LET source == RegisterPair_try_from(Field_pp(b))
         IN  Expect(<<source>>, Op("Dec16R", <<source>>))
    ELSE IF b = \hF8 THEN Op("Ld16HLSPSigned", <<>>)
    ELSE Op("Unknown", <<>>)

\* cycles with the cost of LD r,(HL) for every LdRMem
cycles_FlatLdRMem(o) ==
    IF o.variant = "Unknown" THEN 1
    ELSE IF o.variant = "LdRR" THEN 1
    ELSE IF o.variant = "LdRImm" THEN 2
    ELSE IF o.variant = "LdRMem" THEN 2
    ELSE IF o.variant = "LdMemR" THEN (IF o.args[1] = MemImmediate THEN 4 ELSE 2)
    ELSE IF o.variant = "LdMemImm" THEN 3
    ELSE IF o.variant = "LdhRead" THEN (IF o.args[2][1] = "Register" THEN 2 ELSE 3)
    ELSE IF o.variant = "LdhWrite" THEN (IF o.args[1][1] = "Register" THEN 2 ELSE 3)
    ELSE IF o.variant = "Ld16RImm" THEN 3
    ELSE IF o.variant = "Ld16MemSp" THEN 5
    ELSE IF o.variant = "Ld16SpHL" THEN 2
    ELSE IF o.variant = "Push" THEN 4
    ELSE IF o.variant = "Pop" THEN 3
    ELSE IF o.variant = "AluR" THEN 1
    ELSE IF o.variant = "AluImm" THEN 2
    ELSE IF o.variant = "AluMem" THEN 2
    ELSE IF o.variant = "IncR" THEN 1
    ELSE IF o.variant = "IncMem" THEN 3
    ELSE IF o.variant = "DecR" THEN 1
    ELSE IF o.variant = "DecMem" THEN 3
    ELSE IF o.variant = "Daa" THEN 1
    ELSE IF o.variant = "Cpl" THEN 1
    ELSE IF o.variant = "Add16HL" THEN 2
    ELSE IF o.variant = "Add16SPSigned" THEN 4
    ELSE IF o.variant = "Inc16R" THEN 2
    ELSE IF o.variant = "Dec16R" THEN 2
    ELSE 4

\* pub fn cycles: the arms of `match self`, in order (the last is Ld16HLSPSigned)
cycles(o) ==
    IF o.variant = "Unknown" THEN 1
    ELSE IF o.variant = "LdRR" THEN 1
    ELSE IF o.variant = "LdRImm" THEN 2
    ELSE IF o.variant = "LdRMem" THEN (IF o.args[2] = MemImmediate THEN 4 ELSE 2)
    ELSE IF o.variant = "LdMemR" THEN (IF o.args[1] = MemImmediate THEN 4 ELSE 2)
    ELSE IF o.variant = "LdMemImm" THEN 3
    ELSE IF o.variant = "LdhRead" THEN (IF o.args[2][1] = "Register" THEN 2 ELSE 3)
    ELSE IF o.variant = "LdhWrite" THEN (IF o.args[1][1] = "Register" THEN 2 ELSE 3)
    ELSE IF o.variant = "Ld16RImm" THEN 3
    ELSE IF o.variant = "Ld16MemSp" THEN 5
    ELSE IF o.variant = "Ld16SpHL" THEN 2
    ELSE IF o.variant = "Push" THEN 4
    ELSE IF o.variant = "Pop" THEN 3
    ELSE IF o.variant = "AluR" THEN 1
    ELSE IF o.variant = "AluImm" THEN 2
    ELSE IF o.variant = "AluMem" THEN 2
    ELSE IF o.variant = "IncR" THEN 1
    ELSE IF o.variant = "IncMem" THEN 3
    ELSE IF o.variant = "DecR" THEN 1
    ELSE IF o.variant = "DecMem" THEN 3
    ELSE IF o.variant = "Daa" THEN 1
    ELSE IF o.variant = "Cpl" THEN 1
    ELSE IF o.variant = "Add16HL" THEN 2
    ELSE IF o.variant = "Add16SPSigned" THEN 4
    ELSE IF o.variant = "Inc16R" THEN 2
    ELSE IF o.variant = "Dec16R" THEN 2
    ELSE 4

\* the host decodes the presented byte
Decode ==
    /\ opcode = <<>>
    /\ opcode' = <<from(op)>>
    /\ UNCHANGED <<op, cycles_ret, ppu, irq, ticks, ready_ret, ready_prev>>

\* the host asks for the cost of the decoded instruction
Cycles ==
    /\ Len(opcode) = 1
    /\ opcode[1] # Panic
    /\ cycles_ret = <<>>
    /\ cycles_ret' = <<cycles(opcode[1])>>
    /\ UNCHANGED <<op, opcode, ppu, irq, ticks, ready_ret, ready_prev>>

(* ------------------------------------------------------------------ *)
(* Inputs and specifications                                           *)
(* ------------------------------------------------------------------ *)
\* LCDC: LCD on, OBJ on, BG on
LcdcData == {131}
\* one 8x8 sprite at the top left corner of the screen: [Y, X, tile, attributes]
SpriteEntries == {<<16, 8, 0, 0>>}

\* the frame timing, with and without a sprite to fetch
Next ==
    \/ Clock
    \/ \E d \in LcdcData : Write(65344, d)
    \/ \E e \in SpriteEntries : WriteOamEntry(0, e)

Spec == Init /\ [][Next]_vars

\* the frame hand-off
NextFrame == Clock \/ ReadyFrame

SpecFrame == Init /\ [][NextFrame]_vars

\* the VRAM and OAM ports
VramAddrs == {40959}
VramData == {90}
OamAddrs == {65024}
OamData == {90}

NextPorts ==
    \/ Clock
    \/ \E a \in VramAddrs, d \in VramData : WriteVram(a, d)
    \/ \E a \in OamAddrs, d \in OamData, force \in BOOLEAN : WriteOam(a, d, force)

SpecPorts == Init /\ [][NextPorts]_vars

\* STAT and LYC
StatData == {64}
LycData == {64, 154}

NextStat ==
    \/ Clock
    \/ \E d \in StatData : Write(65345, d)
    \/ \E d \in LycData : Write(65349, d)

SpecStat == Init /\ [][NextStat]_vars

\* the register file: STAT written with every kind of byte, and writes to
\* LY (0xFF44), rKEY0 (0xFF4C) and addresses around and far from the registers
StatWrites == {0, 255, 87, 168}
UnlistedAddrs == {65343, 65350, 65357, 65383, 65388, 0, 32768, 65024, 65535}
DroppedAddrs == UnlistedAddrs \cup {65348, 65356}
DroppedData == {1, 255}
\* the dropped writes the host makes: LY, rKEY0 and the DMA register 0xFF46
HostDroppedAddrs == {65348, 65356, 65350}
HostDroppedData == {255}

NextRegs ==
    \/ Clock
    \/ \E d \in StatWrites : Write(65345, d)
    \/ \E a \in HostDroppedAddrs, d \in HostDroppedData : Write(a, d)

SpecRegs == Init /\ [][NextRegs]_vars

\* a background whose tile 0 has the four colours 0, 1, 2, 3 in the first
\* pixels of its first row, shown through the identity palette: the host's
\* writes of LCDC, BGP and the two bit planes of the row, with no clock call
\* between
WriteBackground(lcdc, bgp, low, high) ==
    /\ ~panicked
    /\ Becomes(write_vram(write_vram(write(write(Self,
                  65344, lcdc), 65351, bgp), 36864, low), 36865, high))
    /\ UNCHANGED <<irq, ticks, ready_ret, ready_prev, cpu>>

\* LCDC: LCD on, BG on; BGP 0xE4; planes 0x55, 0x33
Backgrounds == {<<129, 228, 85, 51>>}

NextPixels ==
    \/ Clock
    \/ \E b \in Backgrounds : WriteBackground(b[1], b[2], b[3], b[4])

SpecPixels == Init /\ [][NextPixels]_vars

\* Drawing under a host that rewrites SCX (0xFF43) while the fetcher waits to push
\* a background row, with the value that makes (scroll_x + x) & 7 equal to 7
ClockDraw == ticks < MaxDrawTicks /\ Clock

WriteScrollXBeforePush ==
    /\ fifo_mode.mode = "Drawing"
    /\ fifo_mode.pixel_fetcher = "Push"
    /\ ~fifo_mode.is_sprite
    /\ FifoIsEmpty(background_pixel_pipeline)
    /\ Write(65347, (7 - x) % 8)

NextDraw == ClockDraw \/ WriteScrollXBeforePush

SpecDraw == Init /\ [][NextDraw]_vars

\* the decoder, on every byte
Bytes == 0..255

InitDecoder ==
    /\ PpuNew
    /\ op \in Bytes
    /\ opcode = <<>>
    /\ cycles_ret = <<>>

NextDecoder == Decode \/ Cycles

SpecDecoder == InitDecoder /\ [][NextDecoder]_vars

\* the OAM table and LCDC the host sets up before the first clock call: the
\* write_oam calls of every entry, then the LCDC write, with no clock call between
RECURSIVE write_oam_entries(_, _)
write_oam_entries(s, table) ==
    IF table = <<>> THEN s
    ELSE LET n == Head(table)[1]
             entry == Head(table)[2]
         IN  write_oam_entries(
                 write_oam(write_oam(write_oam(write_oam(s,
                     65024 + 4 * n, entry[1], FALSE),
                     65024 + 4 * n + 1, entry[2], FALSE),
                     65024 + 4 * n + 2, entry[3], FALSE),
                     65024 + 4 * n + 3, entry[4], FALSE),
                 Tail(table))

WriteOamTable(table, lcdc) ==
    /\ ~panicked
    /\ ticks = 0
    /\ oam = EmptyMem
    /\ Becomes(write(write_oam_entries(Self, table), 65344, lcdc))
    /\ UNCHANGED <<irq, ticks, ready_ret, ready_prev, cpu>>

\* twelve sprites on scanlines 0..7 in entries 0..11, X = 8, 16, ...
TwelveSprites == [i \in 1..12 |-> <<i - 1, <<16, 8 * i, i, 0>>>>]
\* entry 0 hidden by X = 0, entry 1 on scanlines 8..15 (0..15 when 16 high),
\* entry 2 above the screen, entries 38 and 39 on scanlines 0..7
SpreadSprites ==
    <<<<0, <<16, 0, 1, 0>>>>, <<1, <<24, 8, 2, 0>>>>, <<2, <<8, 16, 3, 0>>>>,
      <<38, <<16, 24, 4, 0>>>>, <<39, <<16, 32, 5, 0>>>>>>
OamTables == {TwelveSprites, SpreadSprites}
\* LCDC: LCD on, OBJ on, BG on, sprites 8 or 16 high
OamLcdcData == {131, 135}

NextOam ==
    \/ ClockDraw
    \/ \E table \in OamTables, lcdc \in OamLcdcData : WriteOamTable(table, lcdc)

SpecOam == Init /\ [][NextOam]_vars

WindowWriteLines == {0, 3}
WindowWriteDots == {0, 100}
\* the window: the host's writes of WY (0xFF4A), WX (0xFF4B) and LCDC with no
\* clock call between, made at the start of a scanline or in the middle of its
\* Drawing, on the scanlines of WindowWriteLines
WriteWindow(wy, wx, lcdc) ==
    /\ ~panicked
    /\ y \in WindowWriteLines
    /\ cycle \in WindowWriteDots
    /\ Becomes(write(write(write(Self, 65354, wy), 65355, wx), 65344, lcdc))
    /\ UNCHANGED <<irq, ticks, ready_ret, ready_prev, cpu>>

\* [WY, WX, LCDC]: the window from scanline 2 and from x = 80, the same with WY
\* moved off the screen, and the window disabled
WindowSetups == {<<2, 87, 163>>, <<200, 87, 163>>, <<200, 7, 131>>}

NextWindow ==
    \/ Clock
    \/ \E w \in WindowSetups : WriteWindow(w[1], w[2], w[3])

SpecWindow == Init /\ [][NextWindow]_vars

\* a scene for the compositor, set up before the first clock call: a background
\* row of colours 0 1 2 3 0 1 2 3 (tile 0 at 0x9000), a sprite row of colours
\* 0 0 2 2 3 3 1 1 (tile 0 at 0x8000) at the top left corner in OAM entry 1, and
\* three different palettes (BGP 0xE4, OBP0 0x1B, OBP1 0x4E)
WriteScene(lcdc, attributes) ==
    /\ ~panicked
    /\ ticks = 0
    /\ oam = EmptyMem
    /\ Becomes(write_oam_entries(
           write_vram(write_vram(write_vram(write_vram(
           write(write(write(write(Self,
               65344, lcdc), 65351, 228), 65352, 27), 65353, 78),
               36864, 85), 36865, 51), 32768, 15), 32769, 60),
           <<<<1, <<16, 8, 0, attributes>>>>>>))
    /\ UNCHANGED <<irq, ticks, ready_ret, ready_prev, cpu>>

\* LCDC: LCD on, with every combination of OBJ enable (bit 1) and BG enable (bit 0)
SceneLcdc == {128, 129, 130, 131}
\* sprite attributes: every combination of BG-over-OBJ (bit 7) and palette (bit 4)
SceneAttributes == {0, 16, 128, 144}

NextMix ==
    \/ ClockDraw
    \/ \E lcdc \in SceneLcdc, attributes \in SceneAttributes : WriteScene(lcdc, attributes)

SpecMix == Init /\ [][NextMix]_vars

\* the OAM port on addresses of the OAM page 0xFE00..0xFEFF and outside it:
\* both ends of OAM, the byte after it, the end of the page, 0x0000 and 0xFFFF
OamBusAddrs == {65024, 65183, 65184, 65279, 0, 65535}
OamBusData == {255}

NextOamBus ==
    \/ ClockDraw
    \/ \E a \in OamBusAddrs, d \in OamBusData, force \in BOOLEAN : WriteOam(a, d, force)

SpecOamBus == Init /\ [][NextOamBus]_vars

\* sprites at the left edge: X = 1, 5 and 8 start their fetch at x == 0, X = 9
\* at x == 1, X = 168 and X = 255 never; LCDC is rewritten, between any two clock
\* calls made while x == 0 in Drawing, with OBJ off, on, or on and 16 high
EdgeSprites ==
    <<<<0, <<16, 1, 1, 0>>>>, <<1, <<16, 5, 2, 0>>>>, <<2, <<16, 8, 3, 0>>>>,
      <<3, <<16, 9, 4, 0>>>>, <<4, <<16, 255, 5, 0>>>>, <<5, <<16, 168, 6, 0>>>>>>
EdgeLcdcData == {129, 131, 135}

WriteLcdcAtEdge(lcdc) ==
    /\ fifo_mode.mode = "Drawing"
    /\ x = 0
    /\ Write(65344, lcdc)

NextEdge ==
    \/ ClockDraw
    \/ \E lcdc \in EdgeLcdcData : WriteOamTable(EdgeSprites, lcdc)
    \/ \E lcdc \in EdgeLcdcData : WriteLcdcAtEdge(lcdc)

SpecEdge == Init /\ [][NextEdge]_vars

(* ------------------------------------------------------------------ *)
(* Properties                                                          *)
(* ------------------------------------------------------------------ *)
Count(q, k) == Cardinality({i \in DOMAIN q : q[i] = k})

\* C1: in every state reached from a fresh PPU, between calls,
\* 0 <= y < 154, 0 <= cycle < 456 and 0 <= x <= 160.
C1_RasterBounds == y \in 0..153 /\ cycle \in 0..455 /\ x \in 0..160

\* the last dot of the last visible scanline, all 160 pixels written
C1_Witness == x = 160 /\ y = 143 /\ cycle = 455

\* C2: between clock calls the mode is V-Blank iff 144 <= y <= 153, and the mode
\* is OAM-scan or Drawing only when y < 144.
C2_ModeByLine ==
    /\ (fifo_mode.mode = "VBlank") <=> (144 <= y /\ y <= 153)
    /\ fifo_mode.mode \in {"OamScan", "Drawing"} => y < 144

C2_Witness == fifo_mode.mode = "VBlank" /\ y = 153 /\ lcd_control_reg = 131

\* C3: from a fresh PPU, every 456 clock calls advance y by one (153 wraps to 0)
\* and bring cycle back to 0; (y, cycle) is (0, 0) again after exactly 70224
\* clock calls and not earlier, whatever the registers and OAM hold.
C3_Period ==
    /\ cycle = ticks % 456
    /\ y = (ticks \div 456) % 154
    /\ (y = 0 /\ cycle = 0) <=> (ticks % 70224 = 0)

C3_Witness == ticks = 70224 /\ y = 0 /\ cycle = 0 /\ lcd_control_reg = 131

\* C4: VBLANK is requested once per frame of 70224 clock calls, in the clock
\* call in which y changes from 143 to 144, and in no other clock call.
C4_VBlankOnce ==
    /\ Count(irq, "VBLANK") = (IF ticks % 70224 = 144 * 456 THEN 1 ELSE 0)
    /\ (Count(irq, "VBLANK") > 0) <=> (y = 144 /\ cycle = 0)

C4_Witness == Count(irq, "VBLANK") = 1 /\ y = 144 /\ cycle = 0 /\ ticks = 65664

\* C5: ready_frame returns a frame exactly once per frame: only the first call
\* made after the PPU has reached y == 0 && cycle == 0 returns Some; every later
\* call before the next frame boundary and every call made mid-frame returns None.
C5_OncePerFrame ==
    ticks > 0 =>
        /\ ready_ret = "Some" => (y = 0 /\ cycle = 0 /\ ready_prev = "")
        /\ (ready_ret # "" /\ ready_prev = "" /\ y = 0 /\ cycle = 0) => ready_ret = "Some"
        /\ (ready_ret # "" /\ ~(y = 0 /\ cycle = 0)) => ready_ret = "None"

\* the VRAM addresses read by the properties: the written one, an alias of it and others
ProbeAddrs == {40959, 8191, 32768, 0}
StoredByte(a) == Get(vram, (a % 8192) + (IF vram_bank_register THEN 8192 ELSE 0))

\* C6: read_vram returns 0xFF when the mode is Drawing and the stored byte at
\* (addr & 0x1FFF) | bank in the other modes; the mode is the one the last clock
\* call left: blocked right after the call in which cycle becomes 80, not
\* blocked right after the call in which x reaches 160.
C6_ReadVramBlock ==
    \A a \in ProbeAddrs :
        /\ fifo_mode.mode = "Drawing" => read_vram(Self, a) = 255
        /\ fifo_mode.mode # "Drawing" => read_vram(Self, a) = StoredByte(a)
        /\ (y < 144 /\ cycle = 80) => read_vram(Self, a) = 255
        /\ x = 160 => read_vram(Self, a) = StoredByte(a)

\* a stored byte that a read during Drawing does not show
C6_Witness ==
    /\ fifo_mode.mode = "Drawing"
    /\ StoredByte(40959) = 90
    /\ read_vram(Self, 40959) = 255

\* C7: write_vram during Drawing is dropped (no VRAM byte changes); in the other
\* modes it stores data at (addr & 0x1FFF) | bank and changes no other byte.
C7_WriteVramBlock ==
    [][\A a \in VramAddrs, d \in VramData :
          WriteVram(a, d) =>
              IF fifo_mode.mode = "Drawing"
              THEN vram' = vram
              ELSE vram' = Put(vram, a % 8192, d)]_vars

\* C8: while the mode is OAM-scan or Drawing, write_oam(addr, v, force=false)
\* leaves OAM unchanged and read_oam(addr, force=false) returns 0xFF; with
\* force=true write_oam stores v and read_oam returns the stored byte, in every mode.
C8_OamBlock ==
    /\ [](\A a \in OamAddrs :
            /\ fifo_mode.mode \in {"OamScan", "Drawing"} => read_oam(Self, a, FALSE) = 255
            /\ read_oam(Self, a, TRUE) = Get(oam, a % 256))
    /\ [][\A a \in OamAddrs, d \in OamData :
            /\ (WriteOam(a, d, FALSE) /\ fifo_mode.mode \in {"OamScan", "Drawing"})
                   => oam' = oam
            /\ WriteOam(a, d, TRUE) => oam' = Put(oam, a % 256, d)]_vars

\* C9: read(0xFF41) has bit 2 set iff the current y equals y_compare, in every
\* state and for every y_compare written through 0xFF45.
C9_LycFlag == (Bit(read(Self, 65345), 2) = 1) <=> (y = y_compare)

C9_Witness == y = 64 /\ y_compare = 64 /\ Bit(read(Self, 65345), 2) = 1

\* C10: with STAT bit 6 the only enabled source and y_compare = k, a clock call
\* requests LCD_STAT once if it is the call at the scanline boundary where y
\* becomes k (k in 0..153; for k = 0 the call where y wraps from 153 to 0), and
\* not at all otherwise: once per frame of 70224 calls, never for k >= 154.
C10_LycInterrupt ==
    [][(ticks' = ticks + 1 /\ BitAnd(lcd_status_reg, 120) = 64) =>
          /\ Count(irq', "LCD_STAT") =
                (IF y_compare <= 153 /\ ticks' % 70224 = (y_compare * 456) % 70224
                 THEN 1 ELSE 0)
          /\ Count(irq', "LCD_STAT") > 0 => (y' = y_compare /\ cycle' = 0 /\ y' # y)]_vars

C10_Witness ==
    /\ Count(irq, "LCD_STAT") = 1
    /\ y = 64 /\ cycle = 0 /\ y_compare = 64 /\ lcd_status_reg = 64

\* C11: on every visible scanline, scanline 0 of the first frame included, the
\* mode is OAM-scan during dots 0..79 of the line and Drawing or H-Blank during
\* the other 376 dots 80..455 (dot = clock calls made so far mod 456), and
\* H-Blank does not go back to Drawing within the line.
C11_ModeCoverage ==
    /\ [](y < VBLANK_START =>
            /\ (fifo_mode.mode = "OamScan") <=> (ticks % DOTS_PER_LINE < OAM_SCAN_DOTS)
            /\ (fifo_mode.mode \in {"Drawing", "HBlank"})
                   <=> (ticks % DOTS_PER_LINE \in OAM_SCAN_DOTS..(DOTS_PER_LINE - 1)))
    /\ [][fifo_mode.mode = "HBlank" => fifo_mode'.mode # "Drawing"]_vars

\* the first Drawing dot of the first scanline after construction
C11_Witness == ticks = OAM_SCAN_DOTS /\ y = 0 /\ fifo_mode.mode = "Drawing"

\* C12: on every visible scanline Drawing lasts at least 172 dots: the clock call
\* that enters H-Blank (x reaches 160) comes at least 172 calls after the one
\* that entered Drawing (cycle became 80), for every configuration.
C12_DrawingLength ==
    [][(fifo_mode.mode = "Drawing" /\ fifo_mode'.mode = "HBlank")
          => cycle' - OAM_SCAN_DOTS >= 172]_vars

\* C13: write(0xFF41, d) changes only bits 3..6 of the stored STAT register:
\* after it read(0xFF41) has bits 3..6 equal to those of d, bits 0..2 are what
\* the mode, y and y_compare make them (as before the write, never from d), and
\* bit 7 and the other stored bits, like the rest of the PPU, are as they were.
C13_StatWriteMask ==
    /\ read(Self, 65345) % 8 = ModeNumber(fifo_mode) + (IF y = y_compare THEN 4 ELSE 0)
    /\ \A d \in StatWrites :
          LET after == write(Self, 65345, d)
          IN  /\ (read(after, 65345) \div 8) % 16 = (d \div 8) % 16
              /\ read(after, 65345) % 8 = read(Self, 65345) % 8
              /\ after.lcd_status_reg % 8 = lcd_status_reg % 8
              /\ after.lcd_status_reg \div 128 = lcd_status_reg \div 128
              /\ read(after, 65345) \div 128 = lcd_status_reg \div 128
              /\ [after EXCEPT !.lcd_status_reg = 0] = [Self EXCEPT !.lcd_status_reg = 0]

\* STAT written with 0xFF, read back during Drawing on a line other than LYC
C13_Witness ==
    /\ lcd_status_reg = 120
    /\ read(Self, 65345) = 123
    /\ fifo_mode.mode = "Drawing" /\ y = 1 /\ y_compare = 0

\* C14: read(addr) is 0 for every address outside the register file,
\* read(0xFF4C) is 0xFF and read(0xFF44) is the current y; write(addr, data) to
\* an address outside the register file, to 0xFF44 or to 0xFF4C changes nothing.
C14_UnknownMmio ==
    /\ \A a \in UnlistedAddrs : read(Self, a) = 0
    /\ read(Self, 65356) = 255
    /\ read(Self, 65348) = y
    /\ \A a \in DroppedAddrs, d \in DroppedData : write(Self, a, d) = Self

\* LY read on a later line, with a non-zero STAT next to the dropped addresses
C14_Witness ==
    /\ y = 2 /\ read(Self, 65348) = 2
    /\ lcd_status_reg = 120
    /\ read(Self, 65350) = 0 /\ read(Self, 65356) = 255

\* the byte of the frame for a palette output
ByteOf(pixel) ==
    CASE pixel = 0 -> 192
      [] pixel = 1 -> 128
      [] pixel = 2 -> 64
      [] pixel = 3 -> 0

\* C15: a pixel the compositor writes occupies the four bytes at offset
\* (y*160 + x)*4, the four bytes are equal and are 0xC0, 0x80, 0x40 or 0x00 for
\* the palette output 0, 1, 2 or 3; a clock call writes nothing else to the frame.
C15_FrameEncoding ==
    LET after == clock(Self)
        stored(f, w) == PutFrame(PutFrame(PutFrame(PutFrame(f,
                            w.bytes[1][1], w.bytes[1][2]), w.bytes[2][1], w.bytes[2][2]),
                            w.bytes[3][1], w.bytes[3][2]), w.bytes[4][1], w.bytes[4][2])
    IN  /\ Len(after.px) <= 1
        /\ Len(after.px) = 0 => after.frame = frame
        /\ \A i \in DOMAIN after.px :
              LET w == after.px[i]
              IN  /\ w.x = x /\ w.y = y /\ after.x = x + 1
                  /\ w.x \in 0..(FRAME_WIDTH - 1) /\ w.y \in 0..(FRAME_HEIGHT - 1)
                  /\ w.pixel \in 0..3
                  /\ w.bytes = [k \in 1..4 |->
                                  <<(w.y * 160 + w.x) * 4 + (k - 1), ByteOf(w.pixel)>>]
                  /\ after.frame = stored(frame, w)
        /\ \A o \in TrackedOffsets : Get(frame, o) \in {192, 128, 64, 0}
        /\ \A q \in TrackedPixels, k \in 1..3 :
              Get(frame, (q[2] * 160 + q[1]) * 4 + k) = Get(frame, (q[2] * 160 + q[1]) * 4)

\* pixel (0, 0) holds colour 0 as 0xC0 and the next clock call writes colour 3
C15_Witness ==
    /\ \A k \in 0..3 : Get(frame, k) = 192
    /\ x = 3 /\ y = 0
    /\ Len(clock(Self).px) = 1
    /\ clock(Self).px[1].pixel = 3
    /\ clock(Self).px[1].bytes[4] = <<15, 0>>

\* C16: for every byte b, Opcode::from(b) is Unknown iff b is one of 0xD3, 0xDB,
\* 0xDD, 0xE3, 0xE4, 0xEB, 0xEC, 0xED, 0xF4, 0xFC, 0xFD.
C16_UnknownSet ==
    Len(opcode) = 1 =>
        ((opcode[1].variant = "Unknown")
            <=> (op \in {\hD3, \hDB, \hDD, \hE3, \hE4, \hEB, \hEC, \hED, \hF4, \hFC, \hFD}))

\* C17: for every byte b, Opcode::from(b) returns an Opcode: no try_from(...)
\* .expect(...) of a register, register-pair or ALU field fails.
C17_Totality == Len(opcode) = 1 => opcode[1] # Panic

PushBytes == {\hC5, \hD5, \hE5, \hF5}
PopBytes == {\hC1, \hD1, \hE1, \hF1}

\* C18: 0xF5 decodes to Push(AF) and 0xF1 to Pop(AF); 0xC5, 0xD5, 0xE5 to
\* Push(BC), Push(DE), Push(HL) and 0xC1, 0xD1, 0xE1 to Pop(BC), Pop(DE),
\* Pop(HL); no push or pop byte decodes to the pair SP, and two distinct push
\* bytes (or pop bytes) never decode to the same pair.
C18_PushPop ==
    Len(opcode) = 1 =>
        /\ op = \hF5 => opcode[1] = Op("Push", <<"AF">>)
        /\ op = \hF1 => opcode[1] = Op("Pop", <<"AF">>)
        /\ op = \hC5 => opcode[1] = Op("Push", <<"BC">>)
        /\ op = \hD5 => opcode[1] = Op("Push", <<"DE">>)
        /\ op = \hE5 => opcode[1] = Op("Push", <<"HL">>)
        /\ op = \hC1 => opcode[1] = Op("Pop", <<"BC">>)
        /\ op = \hD1 => opcode[1] = Op("Pop", <<"DE">>)
        /\ op = \hE1 => opcode[1] = Op("Pop", <<"HL">>)
        /\ op \in PushBytes \cup PopBytes => opcode[1].args # <<"SP">>
        /\ \A b \in PushBytes \ {op} : op \in PushBytes => from(b) # opcode[1]
        /\ \A b \in PopBytes \ {op} : op \in PopBytes => from(b) # opcode[1]

\* the cost table: by variant and, for the loads through memory, by the kind
\* of address
TableCost(o) ==
    LET v == o.variant
        immediate16 == (v = "LdRMem" /\ o.args[2] = MemImmediate)
                       \/ (v = "LdMemR" /\ o.args[1] = MemImmediate)
        immediate8 == (v = "LdhRead" /\ o.args[2] = MemImmediate)
                      \/ (v = "LdhWrite" /\ o.args[1] = MemImmediate)
    IN  IF v \in {"Unknown", "LdRR", "AluR", "IncR", "DecR", "Daa", "Cpl"} THEN 1
        ELSE IF v \in {"LdRImm", "AluImm", "AluMem", "Ld16SpHL", "Add16HL", "Inc16R", "Dec16R"}
        THEN 2
        ELSE IF v \in {"LdRMem", "LdMemR"} THEN (IF immediate16 THEN 4 ELSE 2)
        ELSE IF v \in {"LdhRead", "LdhWrite"} THEN (IF immediate8 THEN 3 ELSE 2)
        ELSE IF v \in {"LdMemImm", "Ld16RImm", "Pop", "IncMem", "DecMem"} THEN 3
        ELSE IF v \in {"Push", "Add16SPSigned", "Ld16HLSPSigned"} THEN 4
        ELSE IF v = "Ld16MemSp" THEN 5
        ELSE 0

\* C19: for every byte b that decodes, cycles(Opcode::from(b)) is the cost the
\* table gives to the decoded variant and its addressing kind; 0x40 costs 1,
\* 0x06 2, 0x7E 2, 0xFA 4, 0xC5 4, 0xF1 3 and 0x08 5.
C19_CycleCost ==
    Len(cycles_ret) = 1 =>
        /\ cycles_ret[1] = TableCost(opcode[1])
        /\ \A e \in {<<\h40, 1>>, <<\h06, 2>>, <<\h7E, 2>>, <<\hFA, 4>>,
                      <<\hC5, 4>>, <<\hF1, 3>>, <<\h08, 5>>} :
              op = e[1] => cycles_ret[1] = e[2]

\* LD A,(nn) decoded and costed
C19_Witness ==
    /\ op = \hFA
    /\ opcode = <<Op("LdRMem", <<"A", MemImmediate>>)>>
    /\ cycles_ret = <<4>>

\* C20: Drawing finishes within its scanline: on every visible scanline x has
\* reached 160 and the mode is H-Blank before the clock call in which cycle
\* wraps at 456, whatever OAM, VRAM and the registers hold, so 160 pixels are
\* written on the line.
C20_DrawingFinishes ==
    (y < VBLANK_START /\ cycle = DOTS_PER_LINE - 1)
        => (fifo_mode.mode = "HBlank" /\ x = FRAME_WIDTH)


\* the OAM entries that lie on scanline yy, in OAM order
RECURSIVE Selected(_, _, _, _)
Selected(o, yy, height, n) ==
    IF n = OAM_LEN \div 4 THEN <<>>
    ELSE (IF WrappingAdd(WrappingSub(yy, Get(o, 4 * n)), 16) < height
             /\ Get(o, 4 * n + 1) > 0
          THEN <<n>> ELSE <<>>) \o Selected(o, yy, height, n + 1)

\* a secondary OAM that holds the first 10 of these entries and nothing else
ExpectedSecondary ==
    LET sel == Selected(oam, y, SpriteHeight(Self), 0)
        kept == IF Len(sel) < 10 THEN Len(sel) ELSE 10
        idx == {k \in 0..(SECONDARY_OAM_LEN - 1) :
                   k \div 4 < kept /\ Get(oam, 4 * sel[(k \div 4) + 1] + (k % 4)) # 0}
    IN  [k \in idx |-> Get(oam, 4 * sel[(k \div 4) + 1] + (k % 4))]

\* C21: in the state left by the clock call that enters Drawing (cycle 80 of a
\* visible scanline), secondary OAM holds, in OAM order, exactly the first
\* min(10, n) of the 40 OAM entries that lie on the scanline and have X > 0.
C21_OamSelection ==
    (fifo_mode.mode = "Drawing" /\ cycle = OAM_SCAN_DOTS) => secondary_oam = ExpectedSecondary

\* the same on every scanline but the first one after construction
C21_LaterLines ==
    (fifo_mode.mode = "Drawing" /\ cycle = OAM_SCAN_DOTS /\ ticks > DOTS_PER_LINE)
        => secondary_oam = ExpectedSecondary

\* the calls other than clock probed in every state: each register of write,
\* both ends of VRAM and of OAM (with and without force)
PortProbes == {<<a, d>> : a \in (65344..65355) \cup (65384..65387), d \in {0, 255}}
VramProbes == {<<32768, 255>>, <<40959, 255>>}
OamProbes == {<<65024, 255>>, <<65183, 255>>}

\* C22: a clock call changes the mode only OamScan -> Drawing when cycle becomes
\* 80 with y < 144, Drawing -> HBlank when x reaches 160, or to OamScan / VBlank
\* when cycle wraps at 456 (so HBlank and VBlank last to the end of their
\* scanline); write, write_vram, write_oam and ready_frame never change it.
C22_ModeChanges ==
    /\ LET s == clock(Self)
       IN  s.fifo_mode.mode # fifo_mode.mode =>
            \/ /\ fifo_mode.mode = "OamScan" /\ s.fifo_mode.mode = "Drawing"
               /\ s.cycle = OAM_SCAN_DOTS /\ s.y < VBLANK_START
            \/ /\ fifo_mode.mode = "Drawing" /\ s.fifo_mode.mode = "HBlank"
               /\ x = FRAME_WIDTH - 1 /\ s.x = FRAME_WIDTH
            \/ /\ s.fifo_mode.mode \in {"OamScan", "VBlank"}
               /\ cycle = DOTS_PER_LINE - 1 /\ s.cycle = 0
    /\ \A p \in PortProbes : write(Self, p[1], p[2]).fifo_mode = fifo_mode
    /\ \A p \in VramProbes : write_vram(Self, p[1], p[2]).fifo_mode = fifo_mode
    /\ \A p \in OamProbes, force \in BOOLEAN :
           write_oam(Self, p[1], p[2], force).fifo_mode = fifo_mode
    /\ ready_frame(Self).s.fifo_mode = fifo_mode

\* the last dot of a visible scanline that finished drawing: the next clock call
\* leaves HBlank for OamScan
C22_Witness ==
    /\ fifo_mode.mode = "HBlank" /\ cycle = DOTS_PER_LINE - 1 /\ y = 1
    /\ clock(Self).fifo_mode.mode = "OamScan"

\* C23: the clock call in which cycle reaches 456 only advances the scanline:
\* it leaves the Ppu as the scanline advance left it, with no render step (no
\* OAM-scan sub-tick, fetcher step or pixel output) run on top.
C23_NoRenderOnWrap ==
    LET s2 == EnterDrawing([Self EXCEPT !.cycle = @ + 1])
    IN  s2.cycle = DOTS_PER_LINE => clock(Self) = AdvanceScanline(s2)

\* the window or sprite trigger resets the fetcher in the render step run on s
Triggered(s) ==
    LET latched == [s EXCEPT !.window_y_flag = WindowFlag(s)]
    IN  SpriteTrigger(latched, WindowTrigger(latched, s.fifo_mode)) # s.fifo_mode

\* the next clock call of s is a Drawing step of the fetcher that no trigger resets
PlainStep(s) ==
    /\ s.fifo_mode.mode = "Drawing"
    /\ s.cycle + 1 < DOTS_PER_LINE
    /\ ~Triggered(s)
    /\ clock(s).fifo_mode.mode = "Drawing"

NextFetcherState(f) ==
    CASE f = "GetTile" -> "GetTileLow"
      [] f = "GetTileLow" -> "GetTileHigh"
      [] f = "GetTileHigh" -> "Push"
      [] f = "Push" -> "GetTile"

\* the fetcher stays or advances to the next state of the cycle
C24_Order ==
    PlainStep(Self) =>
        clock(Self).fifo_mode.pixel_fetcher
            \in {fifo_mode.pixel_fetcher, NextFetcherState(fifo_mode.pixel_fetcher)}

\* a background or window Push waits, loading nothing, while the FIFO is not empty
C24_PushWaits ==
    (/\ PlainStep(Self)
     /\ fifo_mode.pixel_fetcher = "Push"
     /\ ~fifo_mode.is_sprite
     /\ ~FifoIsEmpty(background_pixel_pipeline)) =>
        LET s == clock(Self)
        IN  /\ s.fifo_mode.pixel_fetcher = "Push"
            /\ s.fifo_mode.fetcher_x = fifo_mode.fetcher_x
            /\ s.background_pixel_pipeline = FifoPop(background_pixel_pipeline)

\* a state the fetcher has just entered is still its state one dot later
C24_TwoDots ==
    LET s1 == clock(Self)
    IN  (/\ PlainStep(Self)
         /\ s1.fifo_mode.pixel_fetcher # fifo_mode.pixel_fetcher
         /\ PlainStep(s1)) =>
            clock(s1).fifo_mode.pixel_fetcher = s1.fifo_mode.pixel_fetcher

\* C24: during Drawing, while no window or sprite trigger resets the fetcher, its
\* state advances only along GetTile -> GetTileLow -> GetTileHigh -> Push ->
\* GetTile, each state occupies 2 dots, and a background/window Push stays in
\* Push, loading nothing, on every dot at which the background FIFO is not empty.
C24_FetcherTiming == C24_Order /\ C24_TwoDots /\ C24_PushWaits

\* 1 for a condition that holds, 0 for one that does not
One(condition) == IF condition THEN 1 ELSE 0

\* C25: the next clock call requests LCD_STAT once for each of: H-Blank entered
\* with STAT bit 3 set; y becomes 144 with bit 4 set; OAM-scan entered at a new
\* scanline y < 144 (the wrap to 0 included) with bit 5 set; scanline advanced to
\* y == y_compare with bit 6 set -- and not otherwise, so never with bits 3..6
\* clear; write, write_vram, write_oam and ready_frame request nothing.
C25_StatSources ==
    /\ LET s == clock(Self)
           advanced == (cycle = DOTS_PER_LINE - 1)
       IN  Count(s.irq, "LCD_STAT") =
               One(/\ fifo_mode.mode = "Drawing" /\ s.fifo_mode.mode = "HBlank"
                   /\ Contains(lcd_status_reg, HBANLK_INTERUPT_SOURCE))
             + One(/\ advanced /\ s.y = VBLANK_START
                   /\ Contains(lcd_status_reg, VBANLK_INTERUPT_SOURCE))
             + One(/\ advanced /\ s.y < VBLANK_START /\ s.fifo_mode.mode = "OamScan"
                   /\ Contains(lcd_status_reg, OAM_INTERUPT_SOURCE))
             + One(/\ advanced /\ s.y = y_compare
                   /\ Contains(lcd_status_reg, LYC_EQ_LC_INTERUPT_SOURCE))
    /\ \A p \in PortProbes : write(Self, p[1], p[2]).irq = <<>>
    /\ \A p \in VramProbes : write_vram(Self, p[1], p[2]).irq = <<>>
    /\ \A p \in OamProbes, force \in BOOLEAN : write_oam(Self, p[1], p[2], force).irq = <<>>
    /\ ready_frame(Self).s.irq = <<>>

\* the wrap to scanline 0 with every source enabled and y_compare = 0: the OAM
\* and the LYC source both requested LCD_STAT in that call
C25_Witness ==
    /\ irq = <<"LCD_STAT", "LCD_STAT">>
    /\ y = 0 /\ cycle = 0 /\ y_compare = 0 /\ lcd_status_reg = 120

\* the render step of the next clock call of s is a Drawing step
DrawingStep(s) ==
    LET s2 == EnterDrawing([s EXCEPT !.cycle = @ + 1])
    IN  s2.cycle # DOTS_PER_LINE /\ s2.fifo_mode.mode = "Drawing"

\* the next clock call wraps y from 153 to 0
FrameWrap(s) == s.cycle = DOTS_PER_LINE - 1 /\ s.y = LINES_PER_FRAME - 1

\* writes of WY, WX and LCDC
WindowProbes == {<<a, d>> : a \in {65354, 65355, 65344}, d \in {0, 7, 163, 255}}

\* C26: window_y_flag becomes true in a clock call exactly when that call runs a
\* Drawing step with y == window_y; once true it stays true across every clock
\* call but the one in which y wraps from 153 to 0, which leaves it false and
\* window_y_counter 0; no write of window_y, window_x or LCDC changes it.
C26_WindowLatch ==
    /\ LET s == clock(Self)
       IN  /\ (DrawingStep(Self) /\ y = window_y) => s.window_y_flag
           /\ (~window_y_flag /\ s.window_y_flag) => (DrawingStep(Self) /\ y = window_y)
           /\ (window_y_flag /\ ~s.window_y_flag) => FrameWrap(Self)
           /\ FrameWrap(Self) => (~s.window_y_flag /\ s.window_y_counter = 0 /\ s.y = 0)
    /\ \A p \in WindowProbes : write(Self, p[1], p[2]).window_y_flag = window_y_flag

\* the last dot of a frame whose window latched on scanline 2 and whose WY was
\* then moved to 200: the flag is still set, and the next clock call clears it
C26_Witness ==
    /\ window_y_flag /\ window_y = 200 /\ lcd_control_reg = 163
    /\ FrameWrap(Self) /\ window_y_counter = 142
    /\ ~clock(Self).window_y_flag

\* the fetcher is in window mode in the Drawing step of the next clock call of s
WindowMode(s) ==
    WindowTrigger([s EXCEPT !.window_y_flag = WindowFlag(s)], s.fifo_mode).is_window

\* C27: a clock call adds one to window_y_counter when its Drawing step brings x
\* to 160 (H-Blank is entered) with the fetcher in window mode, resets it to 0
\* when y wraps from 153 to 0, and leaves it unchanged otherwise (every other
\* Drawing dot, H-Blank, V-Blank, OAM scan); no write changes it.
C27_WindowCounter ==
    /\ LET s == clock(Self)
           window_line == /\ DrawingStep(Self)
                          /\ s.fifo_mode.mode = "HBlank"
                          /\ WindowMode(Self)
       IN  s.window_y_counter =
               IF FrameWrap(Self) THEN 0
               ELSE IF window_line THEN window_y_counter + 1
               ELSE window_y_counter
    /\ \A p \in WindowProbes : write(Self, p[1], p[2]).window_y_counter = window_y_counter

\* H-Blank of the last visible scanline of a frame whose window started on
\* scanline 2: 142 window scanlines are complete
C27_Witness ==
    /\ fifo_mode.mode = "HBlank" /\ y = FRAME_HEIGHT - 1 /\ x = FRAME_WIDTH
    /\ window_y = 2 /\ window_y_counter = 142

\* the next clock call of the Ppu loads a background or window row: its fetcher
\* step is a Push, not of a sprite, that finds the background FIFO empty
RowPush ==
    /\ DrawingStep(Self)
    /\ fifo_mode.mode = "Drawing"
    /\ ~Triggered(Self)
    /\ fifo_mode.pixel_fetcher = "Push"
    /\ ~fifo_mode.is_sprite
    /\ FifoIsEmpty(background_pixel_pipeline)

\* C28: a background Push leaves 8 - ((scroll_x + x) & 7) pixels in the FIFO when
\* x == 0 and all 8 when x > 0, whatever was written to scroll_x between the
\* clock calls; a window Push always leaves all 8.
C28_DrainOnlyAtStart ==
    RowPush =>
        Len(FetcherStep(Self, fifo_mode).s.background_pixel_pipeline) =
            IF ~fifo_mode.is_window /\ x = 0
            THEN 8 - (WrappingAdd(scroll_x, x) % 8)
            ELSE 8

\* the colour the compositing rule gives a popped pair of pixels
ExpectedColour(lcdc, bgp, obp, background_pixel, sprite_pixel) ==
    LET bg == background_pixel % 4
        sp == sprite_pixel % 4
    IN  IF /\ Bit(lcdc, 1) = 1
           /\ sp # 0
           /\ (Bit(sprite_pixel, 7) = 0 \/ bg = 0)
        THEN (obp[Bit(sprite_pixel, 4) + 1] \div (4 ^ sp)) % 4
        ELSE IF Bit(lcdc, 0) = 1
        THEN (bgp \div (4 ^ bg)) % 4
        ELSE bgp % 4

\* C29: in a Drawing step the compositor, with bg and sp the fronts of the two
\* FIFOs after the fetcher's step, writes the sprite colour through OBJ palette
\* (sprite bit 4) iff LCDC bit 1 is set, sp != 0 and (sprite bit 7 is clear or
\* bg == 0), and otherwise the background palette entry of bg (of 0 when LCDC bit
\* 0 is clear); if a sprite fetch is in progress or the background FIFO is empty
\* it pops and writes nothing.
C29_Compositing ==
    DrawingStep(Self) =>
        LET fetched == Fetched(BeforeRender(Self))
            bgq == fetched.s.background_pixel_pipeline
            spq == fetched.s.sprite_pixel_pipeline
            s == clock(Self)
        IN  IF FifoIsEmpty(bgq) \/ fetched.state.is_sprite
            THEN /\ s.px = <<>>
                 /\ s.x = x
                 /\ s.frame = frame
                 /\ s.background_pixel_pipeline = bgq
                 /\ s.sprite_pixel_pipeline = spq
            ELSE /\ Len(s.px) = 1
                 /\ s.px[1].x = x /\ s.px[1].y = y
                 /\ s.px[1].pixel =
                        ExpectedColour(lcd_control_reg, greyscale_bg_palette,
                                       greyscale_obj_palette, FifoFront(bgq), FifoFront(spq))
                 /\ s.x = x + 1

\* pixel 4 of scanline 0: sprite colour 3 with BG-over-OBJ set, in palette 1, over
\* background colour 0, is about to be written as OBP1's entry 3
C29_Witness ==
    /\ lcd_control_reg = 131 /\ x = 4 /\ y = 0
    /\ FifoFront(background_pixel_pipeline) = 0
    /\ FifoFront(sprite_pixel_pipeline) = 147
    /\ clock(Self).px # <<>>
    /\ clock(Self).px[1].pixel = 1

\* the X byte of secondary OAM entry index
SpriteX(s, index) == Get(s.secondary_oam, index * 4 + 1)

SecondarySlots == 0..((SECONDARY_OAM_LEN \div 4) - 1)

\* render steps a sprite fetch still needs, this one included
FetchRank(state) ==
    CASE state.pixel_fetcher = "GetTile" -> 7 - state.cycle
      [] state.pixel_fetcher = "GetTileLow" -> 5 - state.cycle
      [] state.pixel_fetcher = "GetTileHigh" -> 3 - state.cycle
      [] state.pixel_fetcher = "Push" -> 1

\* C30: in a Drawing step a sprite fetch starts only for a secondary-OAM entry
\* with ((x - X + 8) mod 256) < 8; a fetch in progress moves one step nearer to
\* its Push in every Drawing step, and its Push clears is_sprite and sets that
\* entry's X byte to 0; an entry whose X byte is 0 never matches; and an X byte
\* changes during Drawing only by becoming 0. So each entry is fetched at most
\* once, at most 10 fetches occur per scanline, and is_sprite returns to false.
C30_SpriteOnce ==
    (DrawingStep(Self) /\ fifo_mode.mode = "Drawing") =>
        LET s == clock(Self)
            began == Fetched(Self).state
        IN  /\ \A index \in SecondarySlots :
                  /\ SpriteX(Self, index) = 0 => index \notin SpriteMatches(Self)
                  /\ SpriteX(s, index) \in {SpriteX(Self, index), 0}
            /\ (~fifo_mode.is_sprite /\ began.is_sprite) =>
                  /\ began.sprite_idx % 4 = 0
                  /\ began.sprite_idx \div 4 \in SecondarySlots
                  /\ WrappingAdd(WrappingSub(x, SpriteX(Self, began.sprite_idx \div 4)), 8) < 8
                  /\ FetchRank(began) = 6
            /\ (fifo_mode.is_sprite /\ FetchRank(fifo_mode) > 1) =>
                  /\ s.fifo_mode.mode = "Drawing"
                  /\ s.fifo_mode.is_sprite
                  /\ s.fifo_mode.sprite_idx = fifo_mode.sprite_idx
                  /\ FetchRank(s.fifo_mode) = FetchRank(fifo_mode) - 1
            /\ (fifo_mode.is_sprite /\ FetchRank(fifo_mode) = 1) =>
                  /\ SpriteX(s, fifo_mode.sprite_idx \div 4) = 0
                  /\ s.fifo_mode.mode = "Drawing" => ~s.fifo_mode.is_sprite

\* scanline 1 with ten sprites selected: the first two have been fetched and
\* their X bytes are 0, the tenth is still to come
C30_Witness ==
    /\ fifo_mode.mode = "Drawing" /\ ~fifo_mode.is_sprite /\ y = 1
    /\ Get(secondary_oam, 0) = 16 /\ SpriteX(Self, 0) = 0
    /\ Get(secondary_oam, 4) = 16 /\ SpriteX(Self, 1) = 0
    /\ SpriteX(Self, 2) = 24
    /\ SpriteX(Self, 9) = 80

\* C31: read_oam and write_oam return normally for every address: no call of
\* either has panicked, and none would in this state.
C31_OamIndex ==
    /\ ~panicked
    /\ \A a \in OamBusAddrs, force \in BOOLEAN :
          /\ ~write_oam(Self, a, 255, force).panicked
          /\ ~read_oam_panics(Self, a, force)

\* the same for the addresses 0xFE00..0xFE9F of OAM itself
C31_OamItself ==
    ~panicked =>
        \A a \in 65024..65183, force \in BOOLEAN :
            /\ ~write_oam(Self, a, 255, force).panicked
            /\ ~read_oam_panics(Self, a, force)

\* C32: while a sprite fetch is in progress sprite_idx is the offset of a
\* secondary-OAM entry (a multiple of 4, sprite_idx + 3 < 40) and, at x == 0, the
\* X byte of that entry is in 1..8: the Push that ends the fetch drains
\* 8 - X in 0..7 pixels.
C32_SpriteDrain ==
    (fifo_mode.mode = "Drawing" /\ fifo_mode.is_sprite) =>
        /\ fifo_mode.sprite_idx % 4 = 0
        /\ fifo_mode.sprite_idx + 3 < SECONDARY_OAM_LEN
        /\ x = 0 =>
              /\ SpriteX(Self, fifo_mode.sprite_idx \div 4) \in 1..8
              /\ WrappingSub(8, SpriteX(Self, fifo_mode.sprite_idx \div 4)) \in 0..7

\* the Push of the sprite at X = 1 is about to run at x == 0 (7 pixels to drain),
\* with OBJ switched off in LCDC after the fetch began
C32_Witness ==
    /\ fifo_mode.mode = "Drawing" /\ fifo_mode.is_sprite
    /\ fifo_mode.pixel_fetcher = "Push"
    /\ x = 0 /\ y = 1
    /\ SpriteX(Self, fifo_mode.sprite_idx \div 4) = 1
    /\ lcd_control_reg = 129
====
